---- MODULE Spec2Model ----
(***************************************************************************)
(* better-mcp-notion: the operation handlers (src/tools/*.ts) and the      *)
(* remote-API wrappers they call (src/notion/client.ts), as a state        *)
(* machine.  One behaviour is one tool invocation against a small remote   *)
(* workspace.  Every remote request is one step whose outcome the remote   *)
(* chooses: success (when the addressed object exists and has the right    *)
(* kind) or a failure.                                                     *)
(***************************************************************************)
EXTENDS Integers, Sequences, FiniteSets, TLC

\* ------------------------------------------------------------------ bounds

\* the largest number of documents in one write call
MaxDocs == 2
\* the largest depth argument of read (zod: min(1).max(3))
MAX_DEPTH == 3
\* the largest number of blocks a body translates to
MaxBlocks == 201
\* the rows of the largest data source
MaxRows == 201
\* the largest limit queryDataSource is called with
MaxLimit == 201
\* blocks per append request
BATCH_SIZE == 100
\* block deletions issued together
CONCURRENCY == 3
\* the HTTP status detectObjectType reads as "this is a database"
STATUS_NOT_FOUND == 404
\* a status of a failure that is not "not found"
STATUS_RATE_LIMITED == 429
\* listChildren's default limit
DEFAULT_CHILD_LIMIT == 100

None == "<undefined>"

\* ------------------------------------------------------- the remote workspace

Pages == {"pg1", "pg2", "pg3", "pg4", "pg5", "row1", "row2"}
Databases == {"db1", "db2"}
DataSources == {"ds1"}
\* data sources with many rows, queried on their own
QueryDataSources == {"ds0", "ds99", "ds100", "ds101", "ds200", "dsMax"}

\* the kind of object an identifier names on the remote
KindOf(id) ==
  IF id \in Pages THEN "page"
  ELSE IF id \in Databases THEN "database"
  ELSE IF id \in DataSources \cup QueryDataSources THEN "data_source"
  ELSE "none"

\* PageObjectResponse.parent
ParentOf(p) ==
  CASE p = "pg1" -> [type |-> "workspace", id |-> None]
    [] p = "pg2" -> [type |-> "page_id", id |-> "pg1"]
    [] p = "pg3" -> [type |-> "page_id", id |-> "pg1"]
    [] p = "pg4" -> [type |-> "page_id", id |-> "pg2"]
    [] p = "pg5" -> [type |-> "page_id", id |-> "pg4"]
    [] p = "row1" -> [type |-> "database_id", id |-> "db1"]
    [] p = "row2" -> [type |-> "data_source_id", id |-> "ds1"]

\* the page's title property
TitleOf(id) ==
  CASE id = "pg1" -> "Home"
    [] id = "pg2" -> "Notes"
    [] id = "pg3" -> "Notes"
    [] id = "pg4" -> "Deep"
    [] id = "pg5" -> "Deeper"
    [] id = "row1" -> "Task A"
    [] id = "row2" -> "Task B"
    [] id = "ds1" -> "Tasks"
    [] OTHER -> ""

\* db.data_sources of a database
DataSourcesOf(db) == IF db = "db1" THEN <<"ds1">> ELSE <<>>

\* the schema of the data source: name -> type
SchemaOf(ds) ==
  <<[name |-> "Name", type |-> "title"],
    [name |-> "Status", type |-> "select"],
    [name |-> "Score", type |-> "formula"]>>

\* a content block: a paragraph or a child page / child database reference
OldBlock(p, k) == [type |-> "paragraph", id |-> None, src |-> p, d |-> 0, k |-> k]
ChildPage(p) == [type |-> "child_page", id |-> p, src |-> "tree", d |-> 0, k |-> 0]
ChildDb(db) == [type |-> "child_database", id |-> db, src |-> "tree", d |-> 0, k |-> 0]

\* the content of each page before the call
InitialContent(p) ==
  CASE p = "pg1" -> <<OldBlock(p, 1), ChildPage("pg2"), ChildPage("pg3"), ChildDb("db1")>>
    [] p = "pg2" -> <<ChildPage("pg4"), OldBlock(p, 1)>>
    [] p = "pg3" -> <<>>
    [] p = "pg4" -> <<ChildPage("pg5")>>
    [] p = "pg5" -> <<>>
    [] p = "row1" -> <<OldBlock(p, 1), OldBlock(p, 2), OldBlock(p, 3), OldBlock(p, 4)>>
    [] p = "row2" -> <<OldBlock(p, 1)>>

\* ------------------------------------------------------------------ errors

\* errors.ts: NotionMcpError(message, code)
McpError(code) == [kind |-> "mcp", code |-> code, status |-> 0]
\* an APIResponseError of the remote client, with its HTTP status
ApiError(status) == [kind |-> "api", code |-> "api_error", status |-> status]
\* any other Error (network, YAML, TypeError)
PlainError(code) == [kind |-> "error", code |-> code, status |-> 0]

\* what a failing remote request throws
RemoteFailures == {ApiError(STATUS_NOT_FOUND), ApiError(STATUS_RATE_LIMITED)}

NoError == [kind |-> "none", code |-> "", status |-> 0]

\* ------------------------------------------------------- identifiers (helpers.ts)

\* An identifier string as the caller wrote it: its form and the object (or the
\* name) it spells.  "uuid" is the 8-4-4-4-12 form, "raw" the 32-hex form, "url" a
\* service URL embedding the id, "name" free text, "empty" the empty string and
\* "absent" an undefined field.
Tok(form, key) == [form |-> form, key |-> key]
Absent == Tok("absent", "")
Empty == Tok("empty", "")

\* JavaScript truthiness of an optional string field
Truthy(t) == t.form \notin {"absent", "empty"}

\* isNotionId: UUID_PATTERN or RAW_ID_PATTERN
isNotionId(t) == t.form \in {"uuid", "raw"}

\* extractId: the canonical id for the three id forms, the trimmed input otherwise
extractId(t) == IF t.form \in {"uuid", "raw", "url"} THEN t.key ELSE t.key

\* ------------------------------------------------------- documents (converter)

\* the bodies a document may carry, and the blocks markdownToNotionBlocks makes of
\* each: "blank" is empty or whitespace only, "rule" is a non-blank body of which
\* no block is made (a thematic break), "text" two paragraphs
Bodies == {"blank", "rule", "text"}
BodyBlank(b) == b = "blank"
BodyLen(b) ==
  CASE b = "text" -> 2
    [] b = "hundred" -> 100
    [] b = "long" -> MaxBlocks
    [] OTHER -> 0
NewBlock(d, k) == [type |-> "paragraph", id |-> None, src |-> "body", d |-> d, k |-> k]
markdownToNotionBlocks(b, d) == [k \in 1..BodyLen(b) |-> NewBlock(d, k)]

\* header property maps: Object.entries order
\* A JavaScript value of a header or of a page property: its type, its text (of
\* a string, a number, a boolean, the start of a date), its items (of an array)
\* and the end of a date object.
Val(t, s, items, end) == [t |-> t, s |-> s, items |-> items, end |-> end]
Undefined == Val("undefined", "", <<>>, "")
Null == Val("null", "", <<>>, "")
Str(x) == Val("string", x, <<>>, "")
Num(x) == Val("number", x, <<>>, "")
NaN == Num("NaN")
Bool(b) == Val("boolean", IF b THEN "true" ELSE "false", <<>>, "")
Arr(items) == Val("array", "", items, "")
\* {start, end}; end is None when the key is missing, NullText when it is null
NullText == "<null>"
DateObj(start, end) == Val("object", start, <<>>, end)

\* the condition of `value ? a : b` and of Boolean(value)
JsTruthy(v) ==
  CASE v.t \in {"undefined", "null"} -> FALSE
    [] v.t = "string" -> v.s # ""
    [] v.t = "number" -> v.s \notin {"0", "NaN"}
    [] v.t = "boolean" -> v.s = "true"
    [] OTHER -> TRUE

RECURSIVE JoinComma(_)
\* String(value)
JsString(v) ==
  CASE v.t = "undefined" -> "undefined"
    [] v.t = "null" -> "null"
    [] v.t = "array" -> JoinComma(v.items)
    [] v.t = "object" -> "[object Object]"
    [] OTHER -> v.s

\* Array.prototype.join(","), as String(array) does it
JoinComma(items) ==
  IF items = <<>> THEN ""
  ELSE IF Len(items) = 1
  THEN (IF Head(items).t \in {"undefined", "null"} THEN "" ELSE JsString(Head(items)))
  ELSE (IF Head(items).t \in {"undefined", "null"} THEN "" ELSE JsString(Head(items)))
       \o "," \o JoinComma(Tail(items))

\* the texts Number() reads as a number, and the number each one is
NumericTexts == {"0", "5", "42", "-1", "3.5", "05", ""}
NumberOfText(x) ==
  CASE x = "05" -> "5"
    [] x = "" -> "0"
    [] OTHER -> x

\* Number(value)
JsNumber(v) ==
  CASE v.t = "number" -> v
    [] v.t = "string" -> IF v.s \in NumericTexts THEN Num(NumberOfText(v.s)) ELSE NaN
    [] v.t = "boolean" -> Num(IF v.s = "true" THEN "1" ELSE "0")
    [] v.t = "null" -> Num("0")
    [] v.t = "array" ->
         LET x == JoinComma(v.items) IN
         IF x \in NumericTexts THEN Num(NumberOfText(x)) ELSE NaN
    [] OTHER -> NaN

\* Array.isArray(value) ? value : [value], every item through String()
StringItems(v) ==
  LET items == IF v.t = "array" THEN v.items ELSE <<v>> IN
  [i \in DOMAIN items |-> Str(JsString(items[i]))]

NoProps == <<>>
SomeProps == <<[name |-> "Status", value |-> Str("Done")],
               [name |-> "Score", value |-> Str("5")],
               [name |-> "Bogus", value |-> Str("x")]>>

Doc(id, database, parent, title, props, body) ==
  [id |-> id, database |-> database, parent |-> parent, title |-> title,
   icon |-> IF props = <<>> THEN None ELSE "I",
   cover |-> IF props = <<>> THEN None ELSE "C",
   properties |-> props, body |-> body, bad |-> FALSE]

\* DocumentFrontmatter plus the body, as parseMarkdown returns them; "bad" marks a
\* document on which the header parser throws.  The documents cover: what read
\* emits for a database row, a data-source row and a workspace page (id plus
\* hierarchy field), new pages under a database or a page given by id or by name,
\* both hierarchy fields, neither, and an empty id.
Documents ==
  { [Doc(Absent, Absent, Absent, None, NoProps, "blank") EXCEPT !.bad = TRUE],
    Doc(Absent, Absent, Absent, None, NoProps, "text"),
    Doc(Empty, Absent, Tok("name", "workspace"), "T", NoProps, "text"),
    Doc(Tok("uuid", "row1"), Tok("uuid", "db1"), Absent, "T", SomeProps, "text"),
    Doc(Tok("uuid", "row1"), Tok("uuid", "db1"), Absent, "T", SomeProps, "blank"),
    Doc(Tok("raw", "pg1"), Absent, Tok("name", "workspace"), None, NoProps, "rule"),
    Doc(Tok("uuid", "row2"), Tok("uuid", "ds1"), Absent, "T", NoProps, "text"),
    Doc(Absent, Tok("uuid", "db1"), Tok("name", "workspace"), "T", NoProps, "text"),
    Doc(Absent, Tok("uuid", "db1"), Tok("uuid", "pg1"), "T", SomeProps, "rule"),
    Doc(Absent, Tok("uuid", "db2"), Absent, "T", NoProps, "blank"),
    Doc(Absent, Tok("name", "Tasks"), Absent, "T", NoProps, "text"),
    Doc(Absent, Absent, Tok("uuid", "pg1"), "T", NoProps, "text"),
    Doc(Absent, Absent, Tok("name", "Notes"), None, NoProps, "blank"),
    Doc(Absent, Absent, Tok("name", "Home"), "T", NoProps, "text") }

NoDoc == [id |-> Absent, database |-> Absent, parent |-> Absent, title |-> None,
          icon |-> None, cover |-> None, properties |-> NoProps, body |-> "blank",
          bad |-> FALSE]

\* READONLY_PROPERTY_TYPES
READONLY_PROPERTY_TYPES ==
  {"formula", "rollup", "created_time", "last_edited_time", "created_by",
   "last_edited_by", "unique_id", "verification", "button"}

WritableTypes ==
  {"rich_text", "number", "select", "multi_select", "date", "checkbox", "url",
   "email", "phone_number", "status", "people", "relation", "files"}

\* dbSchema.find((s) => s.name === name): the index of the entry, 0 when none
SchemaFind(schema, name) ==
  IF \E i \in 1..Len(schema) : schema[i].name = name
  THEN CHOOSE i \in 1..Len(schema) :
         /\ schema[i].name = name
         /\ \A j \in 1..(i - 1) : schema[j].name # name
  ELSE 0

TitleKey(schema) ==
  IF \E i \in 1..Len(schema) : schema[i].type = "title"
  THEN schema[CHOOSE i \in 1..Len(schema) :
                /\ schema[i].type = "title"
                /\ \A j \in 1..(i - 1) : schema[j].type # "title"].name
  ELSE "title"

\* what buildPropertyValue puts under the type's key
BuiltValue(type, value) ==
  CASE type = "rich_text" ->
         Str(IF value.t \in {"undefined", "null"} THEN "" ELSE JsString(value))
    [] type = "number" -> IF value.t = "number" THEN value ELSE JsNumber(value)
    [] type \in {"select", "status", "url", "email", "phone_number"} ->
         IF JsTruthy(value) THEN Str(JsString(value)) ELSE Null
    [] type \in {"multi_select", "people", "relation", "files"} ->
         Arr(StringItems(value))
    [] type = "date" ->
         IF ~JsTruthy(value) THEN Null
         ELSE IF value.t = "string" THEN DateObj(value.s, None)
         ELSE IF value.t = "object"
         THEN DateObj(value.s, IF value.end = None THEN NullText ELSE value.end)
         ELSE DateObj(JsString(value), None)
    [] type = "checkbox" -> Bool(JsTruthy(value))
    [] OTHER -> Undefined

buildPropertyValue_dateStartOnly(type, value) ==
  [name |-> "", type |-> type,
   value |-> IF type = "date" /\ JsTruthy(value)
             THEN DateObj(IF value.t = "object" THEN value.s ELSE JsString(value),
                          None)
             ELSE BuiltValue(type, value)]

\* buildPropertyValue, lines 228-305: the typed value of a header value, by the
\* schema type; value Undefined for a type it has no case for
buildPropertyValue(type, value) ==
  [name |-> "", type |-> type, value |-> BuiltValue(type, value)]

RECURSIVE PropEntries_keepUnknown(_, _)
PropEntries_keepUnknown(props, schema) ==
  IF props = <<>> THEN <<>>
  ELSE LET e == Head(props)
           i == SchemaFind(schema, e.name)
           rest == PropEntries_keepUnknown(Tail(props), schema)
           type == IF i = 0 THEN "rich_text" ELSE schema[i].type
           converted == buildPropertyValue(type, e.value)
       IN IF type \in READONLY_PROPERTY_TYPES \/ converted.value = Undefined THEN rest
          ELSE <<[converted EXCEPT !.name = e.name]>> \o rest

RECURSIVE PropEntries(_, _)
PropEntries(props, schema) ==
  IF props = <<>> THEN <<>>
  ELSE LET e == Head(props)
           i == SchemaFind(schema, e.name)
           rest == PropEntries(Tail(props), schema)
       IN IF i = 0 THEN rest
          ELSE IF schema[i].type \in READONLY_PROPERTY_TYPES THEN rest
          ELSE LET converted == buildPropertyValue(schema[i].type, e.value) IN
               IF converted.value = Undefined THEN rest
               ELSE <<[converted EXCEPT !.name = e.name]>> \o rest

TitleEntry(key, title) == [name |-> key, type |-> "title", value |-> Str(title)]

\* frontmatterToProperties: the title under the schema's title key, then every
\* header property the schema has with a writable type
frontmatterToProperties(fm, schema) ==
  (IF fm.title # None THEN <<TitleEntry(TitleKey(schema), fm.title)>> ELSE <<>>)
  \o PropEntries(fm.properties, schema)

\* buildPageProperties: the title only
buildPageProperties(fm) ==
  IF fm.title # None THEN <<TitleEntry("title", fm.title)>> ELSE <<>>

\* ------------------------------------------------------------------ state

\* the largest number of failures the remote injects into one call (a failure the
\* request's target forces, such as a fetch of a missing page, is not counted)
MaxFailures == 1

VARIABLES
  envKey,     \* whether process.env.NOTION_API_KEY is set
  client,     \* client.ts: the module-level handle, "null" until constructed
  content,    \* remote: page -> its content blocks, in order
  meta,       \* remote: page or data source -> what was last written to it
  tool,       \* the invoked operation, "idle" before the call
  args,       \* its arguments
  pc,         \* the handler's position
  di,         \* write: the batch loop's i + 1
  results,    \* write: the batch's outcome lines
  errors,     \* write: the batch's error counter
  loc,        \* the locals of the document (or call) being processed
  inflight,   \* block-delete requests issued and not yet completed
  reqs,       \* the remote requests issued for the current document (or call)
  raised,     \* errors raised so far: thrown to the handler, skipped, probed
  failures,   \* failures injected by the remote so far
  ret         \* the handler's return value

vars == <<envKey, client, content, meta, tool, args, pc, di, results, errors, loc,
          inflight, reqs, raised, failures, ret>>

NoRef == [type |-> "", id |-> ""]

\* listChildren's locals: the page, maxItems, the cursor (blocks already
\* returned), the current response's blocks still to visit, has_more, childPages
NoListing == [page |-> "", limit |-> 0, cursor |-> 0, todo |-> <<>>, more |-> FALSE,
              kids |-> <<>>]

NoLoc ==
  [fm |-> NoDoc, route |-> "", pageId |-> "", parent |-> NoRef, dbId |-> "",
   dsId |-> "", target |-> NoRef, props |-> <<>>, blocks |-> <<>>, list |-> <<>>,
   i |-> 0, wait |-> {}, err |-> NoError, result |-> "",
   stack |-> <<>>, parts |-> <<>>, lc |-> NoListing, skipped |-> {},
   probe |-> NoError]

NoArgs == [n |-> 0, mode |-> "", depth |-> 0, page |-> Absent, to |-> Absent,
           props |-> <<>>, query |-> "", filter |-> "", limit |-> 0, body |-> "",
           action |-> "", property |-> "", type |-> "", name |-> ""]

NoRet == [done |-> FALSE, isError |-> FALSE, escaped |-> FALSE, succeeded |-> 0,
          total |-> 0, lines |-> <<>>]

NoMeta == [properties |-> <<>>, icon |-> None, cover |-> None, updates |-> 0,
           archived |-> FALSE, parent |-> NoRef, comments |-> 0, schema |-> <<>>]

Init ==
  /\ envKey \in BOOLEAN
  /\ client = "null"
  /\ content = [p \in Pages |-> InitialContent(p)]
  /\ meta = [p \in Pages \cup DataSources |-> NoMeta]
  /\ tool = "idle"
  /\ args = NoArgs
  /\ pc = "idle"
  /\ di = 0
  /\ results = <<>>
  /\ errors = 0
  /\ loc = NoLoc
  /\ inflight = {}
  /\ reqs = <<>>
  /\ raised = [thrown |-> 0, skipped |-> 0, probed |-> 0]
  /\ failures = 0
  /\ ret = NoRet

\* ------------------------------------------------------- the remote client

\* getClient: the handle exists, or the credential is there to construct it
ClientOk == client # "null" \/ envKey

\* What one remote request can come to.  Without a handle and a credential
\* getClient throws before any request is sent; a request whose target is missing
\* or of the wrong kind is answered 404; any other request succeeds or fails as
\* the remote chooses.
Outcomes(exists, fails) ==
  IF ~ClientOk THEN {McpError("AUTH_MISSING")}
  ELSE IF ~exists THEN {ApiError(STATUS_NOT_FOUND)}
  ELSE {NoError} \cup (IF failures < MaxFailures THEN fails ELSE {})

\* a full page is fetched, created or updated, or the response is partial
PageFailures == RemoteFailures \cup {McpError("PARTIAL_RESPONSE")}

Sent(o) == o # McpError("AUTH_MISSING")

Req(k, id, n) == [k |-> k, id |-> id, n |-> n]

\* the bookkeeping of one request with outcome o: the handle, the log, the budget
Request(o, exists, k, id, n) ==
  /\ client' = IF ClientOk THEN "client" ELSE client
  /\ reqs' = IF Sent(o) THEN Append(reqs, Req(k, id, n)) ELSE reqs
  /\ failures' = IF Sent(o) /\ o # NoError /\ exists THEN failures + 1 ELSE failures

\* ------------------------------------------------------- write (tools/write.ts)

Modes == {"create", "update", "auto"}

\* processSingleWrite's two flags
isUpdate_anyAuto(mode, fm) == mode = "update" \/ mode = "auto"
isUpdate(mode, fm) == mode = "update" \/ (mode = "auto" /\ Truthy(fm.id))
isCreate(mode, fm) == mode = "create" \/ (mode = "auto" /\ ~Truthy(fm.id))

\* the path processSingleWrite takes
RouteOf(mode, fm) ==
  IF isUpdate(mode, fm) THEN "update"
  ELSE IF isCreate(mode, fm) THEN "create"
  ELSE "invalid"

\* whether the handler's try blocks cover the position an error is thrown at
WriteTryCovers(p) == TRUE

\* an error thrown while a document is processed: it reaches the catch of the
\* single call (lines 140-145) or of the batch loop (lines 155-158)
WThrow(e) ==
  /\ loc' = [loc EXCEPT !.err = e]
  /\ pc' = IF WriteTryCovers(pc) THEN "w_catch" ELSE "escaped"
  /\ raised' = [raised EXCEPT !.thrown = @ + 1]

\* the handler is invoked: markdown splits into n documents
WriteStart(n, mode) ==
  /\ pc = "idle"
  /\ tool' = "write"
  /\ args' = [NoArgs EXCEPT !.n = n, !.mode = mode]
  /\ di' = 1
  /\ pc' = "w_next"
  /\ UNCHANGED <<envKey, client, content, meta, results, errors, loc, inflight,
                 reqs, raised, failures, ret>>

\* processSingleWrite on the next document: parse, translate the body, route
ProcessSingleWrite(d) ==
  /\ tool = "write" /\ pc = "w_next" /\ di <= args.n
  /\ IF d.bad
     THEN /\ loc' = [NoLoc EXCEPT !.fm = d, !.err = PlainError("YAMLException")]
          /\ pc' = IF WriteTryCovers(pc) THEN "w_catch" ELSE "escaped"
          /\ raised' = [raised EXCEPT !.thrown = @ + 1]
     ELSE /\ loc' = [NoLoc EXCEPT !.fm = d,
                                  !.blocks = markdownToNotionBlocks(d.body, di),
                                  !.route = RouteOf(args.mode, d)]
          /\ pc' = CASE RouteOf(args.mode, d) = "update" -> "doUpdate"
                     [] RouteOf(args.mode, d) = "create" -> "doCreate"
                     [] OTHER -> "w_invalid"
          /\ raised' = raised
  /\ UNCHANGED <<envKey, client, content, meta, tool, args, di, results, errors,
                 inflight, reqs, failures, ret>>

\* doUpdate, lines 189-195: the id is required
DoUpdate ==
  /\ tool = "write" /\ pc = "doUpdate"
  /\ IF ~Truthy(loc.fm.id)
     THEN WThrow(McpError("MISSING_ID"))
     ELSE /\ loc' = [loc EXCEPT !.pageId = extractId(loc.fm.id)]
          /\ pc' = "getPage"
          /\ raised' = raised
  /\ UNCHANGED <<envKey, client, content, meta, tool, args, di, results, errors,
                 inflight, reqs, failures, ret>>

\* resolveProperties / resolveUpdateProperties: where the parent's type leads
AfterGetPage(parent) ==
  CASE parent.type = "database_id" -> "dbRetrieve"
    [] parent.type = "data_source_id" -> "dsRetrieve"
    [] OTHER -> "updatePage"

\* doUpdate, lines 197-198: fetch the page; its parent decides the schema
WGetPage ==
  /\ tool = "write" /\ pc = "getPage"
  /\ \E o \in Outcomes(KindOf(loc.pageId) = "page", PageFailures) :
       /\ Request(o, KindOf(loc.pageId) = "page", "pages.retrieve", loc.pageId, 0)
       /\ IF o = NoError
          THEN /\ loc' = [loc EXCEPT
                     !.parent = ParentOf(loc.pageId),
                     !.dbId = IF ParentOf(loc.pageId).type = "database_id"
                              THEN ParentOf(loc.pageId).id ELSE "",
                     !.dsId = IF ParentOf(loc.pageId).type = "data_source_id"
                              THEN ParentOf(loc.pageId).id ELSE "",
                     !.props = buildPageProperties(loc.fm)]
               /\ pc' = AfterGetPage(ParentOf(loc.pageId))
               /\ raised' = raised
          ELSE WThrow(o)
  /\ UNCHANGED <<envKey, content, meta, tool, args, di, results, errors, inflight, ret>>

\* getDatabaseDataSourceId: fetch the database, take its first data source
WDbRetrieve ==
  /\ tool = "write" /\ pc = "dbRetrieve"
  /\ \E o \in Outcomes(KindOf(loc.dbId) = "database", RemoteFailures) :
       /\ Request(o, KindOf(loc.dbId) = "database", "databases.retrieve", loc.dbId, 0)
       /\ IF o # NoError THEN WThrow(o)
          ELSE IF DataSourcesOf(loc.dbId) = <<>>
          THEN WThrow(McpError("NO_DATA_SOURCE"))
          ELSE /\ loc' = [loc EXCEPT !.dsId = DataSourcesOf(loc.dbId)[1]]
               /\ pc' = "dsRetrieve"
               /\ raised' = raised
  /\ UNCHANGED <<envKey, content, meta, tool, args, di, results, errors, inflight, ret>>

\* getDataSource, then frontmatterToProperties against its schema
WDsRetrieve ==
  /\ tool = "write" /\ pc = "dsRetrieve"
  /\ \E o \in Outcomes(KindOf(loc.dsId) = "data_source", PageFailures) :
       /\ Request(o, KindOf(loc.dsId) = "data_source", "dataSources.retrieve", loc.dsId, 0)
       /\ IF o # NoError THEN WThrow(o)
          ELSE /\ loc' = [loc EXCEPT
                     !.props = frontmatterToProperties(loc.fm, SchemaOf(loc.dsId)),
                     !.target = IF loc.route = "create"
                                THEN [type |-> "database_id", id |-> loc.dbId]
                                ELSE loc.target]
               /\ pc' = IF loc.route = "create" THEN "createPage" ELSE "updatePage"
               /\ raised' = raised
  /\ UNCHANGED <<envKey, content, meta, tool, args, di, results, errors, inflight, ret>>

\* updatePage's parameters: properties when there are any, icon and cover when set
UpdateParams(props, fm) ==
  [properties |-> props, icon |-> fm.icon, cover |-> fm.cover]

\* the remote applies a page update: the fields given replace the page's
ApplyUpdate(m, params) ==
  [m EXCEPT
     !.properties = IF params.properties # <<>> THEN params.properties ELSE @,
     !.icon = IF params.icon # None THEN params.icon ELSE @,
     !.cover = IF params.cover # None THEN params.cover ELSE @,
     !.updates = 1]

\* doUpdate, lines 213-218: the body is replaced only when it is not blank
AfterUpdate_always(body) == "listBlocks"
AfterUpdate(body) == IF ~BodyBlank(body) THEN "listBlocks" ELSE "w_ok"

WUpdatePage_goesOn ==
  /\ tool = "write" /\ pc = "updatePage"
  /\ \E o \in Outcomes(KindOf(loc.pageId) = "page", PageFailures) :
       /\ Request(o, KindOf(loc.pageId) = "page", "pages.update", loc.pageId, 0)
       /\ meta' = IF o = NoError \/ o = McpError("PARTIAL_RESPONSE")
                  THEN [meta EXCEPT ![loc.pageId] =
                          ApplyUpdate(@, UpdateParams(loc.props, loc.fm))]
                  ELSE meta
       /\ pc' = AfterUpdate(loc.fm.body)
       /\ loc' = [loc EXCEPT !.result = "Updated"]
       /\ raised' = raised
  /\ UNCHANGED <<envKey, content, tool, args, di, results, errors, inflight, ret>>

\* doUpdate, lines 200-216: update the page, then replace the body if non-blank
WUpdatePage ==
  /\ tool = "write" /\ pc = "updatePage"
  /\ \E o \in Outcomes(KindOf(loc.pageId) = "page", PageFailures) :
       /\ Request(o, KindOf(loc.pageId) = "page", "pages.update", loc.pageId, 0)
       /\ meta' = IF o = NoError \/ o = McpError("PARTIAL_RESPONSE")
                  THEN [meta EXCEPT ![loc.pageId] =
                          ApplyUpdate(@, UpdateParams(loc.props, loc.fm))]
                  ELSE meta
       /\ IF o # NoError THEN WThrow(o)
          ELSE /\ pc' = AfterUpdate(loc.fm.body)
               /\ loc' = [loc EXCEPT !.result = "Updated"]
               /\ raised' = raised
  /\ UNCHANGED <<envKey, content, tool, args, di, results, errors, inflight, ret>>

Min(a, b) == IF a < b THEN a ELSE b

\* blocks.slice(i, i + size), i counted from 0
Slice_short(seq, i, size) == SubSeq(seq, i + 1, Min(i + size - 1, Len(seq)))
Slice(seq, i, size) == SubSeq(seq, i + 1, Min(i + size, Len(seq)))

Range(seq) == {seq[k] : k \in 1..Len(seq)}

\* the sequence without the block b
Without(seq, b) == SelectSeq(seq, LAMBDA x : x # b)

\* deleteAllBlocks, lines 100-104: list the page's blocks
WListBlocks ==
  /\ tool = "write" /\ pc = "listBlocks"
  /\ \E o \in Outcomes(KindOf(loc.pageId) = "page", RemoteFailures) :
       /\ Request(o, KindOf(loc.pageId) = "page", "blocks.children.list", loc.pageId, 0)
       /\ IF o # NoError THEN WThrow(o)
          ELSE /\ loc' = [loc EXCEPT !.list = content[loc.pageId], !.i = 0]
               /\ pc' = "deleteBatch"
               /\ raised' = raised
  /\ UNCHANGED <<envKey, content, meta, tool, args, di, results, errors, inflight, ret>>

DeleteReq(d, page, b) == [d |-> d, page |-> page, b |-> b]

\* one delete request per block of the group
DeleteReqs(page, batch) == [k \in 1..Len(batch) |-> Req("blocks.delete", page, 1)]

\* deleteAllBlocks, lines 106-110: issue the next group's deletions together
WDeleteBatch ==
  /\ tool = "write" /\ pc = "deleteBatch"
  /\ IF loc.i < Len(loc.list)
     THEN LET batch == Slice(loc.list, loc.i, CONCURRENCY) IN
          /\ inflight' = inflight \cup {DeleteReq(di, loc.pageId, b) : b \in Range(batch)}
          /\ reqs' = reqs \o DeleteReqs(loc.pageId, batch)
          /\ loc' = [loc EXCEPT !.wait = Range(batch)]
          /\ pc' = "deleteWait"
     ELSE /\ loc' = [loc EXCEPT !.i = 0]
          /\ pc' = "appendBlocks"
          /\ UNCHANGED <<inflight, reqs>>
  /\ UNCHANGED <<envKey, client, content, meta, tool, args, di, results, errors,
                 raised, failures, ret>>

\* the handler awaits this request: Promise.all of the current group
Awaited(r) == tool = "write" /\ pc = "deleteWait" /\ r.d = di /\ r.b \in loc.wait

\* a deletion completes: the remote removes the block, or the request fails.  A
\* failure rejects Promise.all at once; the group's other requests stay in flight.
DeleteComplete(r, ok) ==
  /\ r \in inflight
  /\ ok \/ failures < MaxFailures \/ r.b \notin Range(content[r.page])
  /\ inflight' = inflight \ {r}
  /\ content' = IF ok THEN [content EXCEPT ![r.page] = Without(@, r.b)] ELSE content
  /\ failures' = IF ~ok /\ r.b \in Range(content[r.page]) THEN failures + 1 ELSE failures
  /\ IF Awaited(r)
     THEN IF ok
          THEN /\ loc' = [loc EXCEPT !.wait = @ \ {r.b},
                                     !.i = IF loc.wait = {r.b} THEN @ + CONCURRENCY ELSE @]
               /\ pc' = IF loc.wait = {r.b} THEN "deleteBatch" ELSE pc
               /\ raised' = raised
          ELSE /\ loc' = [loc EXCEPT !.err = ApiError(STATUS_NOT_FOUND), !.wait = {}]
               /\ pc' = IF WriteTryCovers(pc) THEN "w_catch" ELSE "escaped"
               /\ raised' = [raised EXCEPT !.thrown = @ + 1]
     ELSE UNCHANGED <<loc, pc, raised>>
  /\ UNCHANGED <<envKey, client, meta, tool, args, di, results, errors, reqs, ret>>

WAppendBlocks_allAtOnce ==
  /\ tool = "write" /\ pc = "appendBlocks"
  /\ IF loc.i < Len(loc.blocks)
     THEN \E o \in Outcomes(KindOf(loc.pageId) = "page", RemoteFailures) :
            /\ Request(o, KindOf(loc.pageId) = "page", "blocks.children.append",
                       loc.pageId, Len(loc.blocks))
            /\ content' = IF o = NoError
                          THEN [content EXCEPT ![loc.pageId] = @ \o loc.blocks]
                          ELSE content
            /\ IF o # NoError THEN WThrow(o)
               ELSE /\ loc' = [loc EXCEPT !.i = Len(loc.blocks)]
                    /\ pc' = pc
                    /\ raised' = raised
     ELSE /\ pc' = "w_ok"
          /\ UNCHANGED <<client, content, loc, reqs, raised, failures>>
  /\ UNCHANGED <<envKey, meta, tool, args, di, results, errors, inflight, ret>>

\* appendBlocks: one request per chunk of BATCH_SIZE blocks, one after the other
WAppendBlocks ==
  /\ tool = "write" /\ pc = "appendBlocks"
  /\ IF loc.i < Len(loc.blocks)
     THEN LET batch == Slice(loc.blocks, loc.i, BATCH_SIZE) IN
          \E o \in Outcomes(KindOf(loc.pageId) = "page", RemoteFailures) :
            /\ Request(o, KindOf(loc.pageId) = "page", "blocks.children.append",
                       loc.pageId, Len(batch))
            /\ content' = IF o = NoError
                          THEN [content EXCEPT ![loc.pageId] = @ \o batch]
                          ELSE content
            /\ IF o # NoError THEN WThrow(o)
               ELSE /\ loc' = [loc EXCEPT !.i = @ + BATCH_SIZE]
                    /\ pc' = pc
                    /\ raised' = raised
     ELSE /\ pc' = "w_ok"
          /\ UNCHANGED <<client, content, loc, reqs, raised, failures>>
  /\ UNCHANGED <<envKey, meta, tool, args, di, results, errors, inflight, ret>>

\* ------------------------------------------------------- name resolution

\* the objects the remote's search may return for the queries made here
SearchIndex == {"pg1", "pg2", "pg3", "ds1"}

\* resolveByName asks search for at most this many results
RESOLVE_LIMIT == 5

\* the objects search can return under a kind filter ("database" searches data sources)
SearchCandidates(filter) ==
  CASE filter = "page" -> SearchIndex \cap Pages
    [] filter = "database" -> SearchIndex \cap DataSources
    [] OTHER -> SearchIndex

\* the result lists the remote may answer a search with
SearchResults(filter, limit) ==
  {rs \in SUBSET SearchCandidates(filter) : Cardinality(rs) <= limit}

ResolveByName_anyResult(name, found) ==
  IF found = {}
  THEN [err |-> McpError("NOT_FOUND"), id |-> "", object |-> "",
        named |-> name, list |-> {}]
  ELSE IF Cardinality(found) > 1
  THEN [err |-> McpError("AMBIGUOUS"), id |-> "", object |-> "",
        named |-> name, list |-> found]
  ELSE LET m == CHOOSE r \in found : TRUE IN
       [err |-> NoError, id |-> m,
        object |-> IF KindOf(m) = "page" THEN "page" ELSE "database",
        named |-> "", list |-> {}]

\* resolveByName, lines 375-413: keep the exact-title matches; none, one or many.
\* named and list are what the error message quotes: the name, and one line per
\* matching result holding its id
ResolveByName(name, found) ==
  LET matches == {r \in found : TitleOf(r) = name} IN
  IF matches = {}
  THEN [err |-> McpError("NOT_FOUND"), id |-> "", object |-> "",
        named |-> name, list |-> {}]
  ELSE IF Cardinality(matches) > 1
  THEN [err |-> McpError("AMBIGUOUS"), id |-> "", object |-> "",
        named |-> name, list |-> matches]
  ELSE LET m == CHOOSE r \in matches : TRUE IN
       [err |-> NoError, id |-> m,
        object |-> IF KindOf(m) = "page" THEN "page" ELSE "database",
        named |-> "", list |-> {}]

\* ------------------------------------------------------- write: the create path

\* doCreate, lines 228-260: the database field first, else the parent field
DoCreate ==
  /\ tool = "write" /\ pc = "doCreate"
  /\ IF Truthy(loc.fm.database)
     THEN IF isNotionId(loc.fm.database)
          THEN /\ loc' = [loc EXCEPT !.dbId = extractId(loc.fm.database)]
               /\ pc' = "dbRetrieve"
               /\ raised' = raised
          ELSE /\ pc' = "resolveByName"
               /\ UNCHANGED <<loc, raised>>
     ELSE IF Truthy(loc.fm.parent)
     THEN IF loc.fm.parent = Tok("name", "workspace")
          THEN WThrow(McpError("INVALID_PARENT"))
          ELSE IF isNotionId(loc.fm.parent)
          THEN /\ loc' = [loc EXCEPT
                     !.target = [type |-> "page_id", id |-> extractId(loc.fm.parent)],
                     !.props = buildPageProperties(loc.fm)]
               /\ pc' = "createPage"
               /\ raised' = raised
          ELSE /\ pc' = "resolveByName"
               /\ UNCHANGED <<loc, raised>>
     ELSE WThrow(McpError("MISSING_PARENT"))
  /\ UNCHANGED <<envKey, client, content, meta, tool, args, di, results, errors,
                 inflight, reqs, failures, ret>>

\* doCreate, lines 231 and 245: resolveByName(fm.database, "database") or
\* resolveByName(fm.parent, "page")
WResolveByName ==
  /\ tool = "write" /\ pc = "resolveByName"
  /\ LET byDb == Truthy(loc.fm.database)
         name == IF byDb THEN loc.fm.database.key ELSE loc.fm.parent.key
         filter == IF byDb THEN "database" ELSE "page"
     IN \E o \in Outcomes(TRUE, RemoteFailures) :
          /\ Request(o, TRUE, "search", name, 0)
          /\ IF o # NoError THEN WThrow(o)
             ELSE \E rs \in SearchResults(filter, RESOLVE_LIMIT) :
                    LET res == ResolveByName(name, rs) IN
                    IF res.err # NoError THEN WThrow(res.err)
                    ELSE /\ loc' = IF byDb
                                   THEN [loc EXCEPT !.dbId = res.id]
                                   ELSE [loc EXCEPT
                                           !.target = [type |-> "page_id", id |-> res.id],
                                           !.props = buildPageProperties(loc.fm)]
                         /\ pc' = IF byDb THEN "dbRetrieve" ELSE "createPage"
                         /\ raised' = raised
  /\ UNCHANGED <<envKey, content, meta, tool, args, di, results, errors, inflight, ret>>

\* whether the parent of a create request names an object of the kind it says
ParentExists(target) ==
  \/ target.type = "page_id" /\ KindOf(target.id) = "page"
  \/ target.type = "database_id" /\ KindOf(target.id) = "database"

\* doCreate, lines 262-276: one create request carrying every block
WCreatePage ==
  /\ tool = "write" /\ pc = "createPage"
  /\ \E o \in Outcomes(ParentExists(loc.target), PageFailures) :
       /\ Request(o, ParentExists(loc.target), "pages.create", loc.target.id,
                  Len(loc.blocks))
       /\ IF o # NoError THEN WThrow(o)
          ELSE /\ loc' = [loc EXCEPT !.result = "Created"]
               /\ pc' = "w_ok"
               /\ raised' = raised
  /\ UNCHANGED <<envKey, content, meta, tool, args, di, results, errors, inflight, ret>>

\* ------------------------------------------------------- write: the outcome

Line(n, ok) == [n |-> n, ok |-> ok]

\* the batch loop's step: i++ whether the document failed or not
NextIndex_abort(i, n, failed) == IF failed THEN n + 1 ELSE i + 1
NextIndex(i, n, failed) == i + 1

\* the document's outcome: returned (single call) or pushed as a line (batch)
WriteOutcome ==
  /\ tool = "write" /\ pc \in {"w_ok", "w_catch"}
  /\ IF args.n = 1
     THEN /\ ret' = [NoRet EXCEPT !.done = TRUE, !.isError = (pc = "w_catch"),
                                  !.total = 1,
                                  !.succeeded = IF pc = "w_ok" THEN 1 ELSE 0]
          /\ pc' = "done"
          /\ UNCHANGED <<results, errors, di, loc, reqs>>
     ELSE /\ results' = Append(results, Line(di, pc = "w_ok"))
          /\ errors' = IF pc = "w_catch" THEN errors + 1 ELSE errors
          /\ di' = NextIndex(di, args.n, pc = "w_catch")
          /\ loc' = NoLoc
          /\ reqs' = <<>>
          /\ pc' = "w_next"
          /\ ret' = ret
  /\ UNCHANGED <<envKey, client, content, meta, tool, args, inflight, raised, failures>>

\* lines 161-165: the batch's summary and error flag
BatchSummary_allFailed(n, errs, lines) ==
  [done |-> TRUE, isError |-> (errs = n), escaped |-> FALSE, succeeded |-> n - errs,
   total |-> n, lines |-> lines]
BatchSummary(n, errs, lines) ==
  [NoRet EXCEPT !.done = TRUE, !.isError = (errs > 0), !.succeeded = n - errs,
                !.total = n, !.lines = lines]

WriteSummary ==
  /\ tool = "write" /\ pc = "w_next" /\ di > args.n
  /\ ret' = BatchSummary(args.n, errors, results)
  /\ pc' = "done"
  /\ UNCHANGED <<envKey, client, content, meta, tool, args, di, results, errors, loc,
                 inflight, reqs, raised, failures>>

WriteNext ==
  \/ \E n \in 0..MaxDocs, mode \in Modes : WriteStart(n, mode)
  \/ \E d \in Documents : ProcessSingleWrite(d)
  \/ DoUpdate
  \/ WGetPage
  \/ WDbRetrieve
  \/ WDsRetrieve
  \/ WUpdatePage
  \/ WListBlocks
  \/ WDeleteBatch
  \/ \E r \in inflight, ok \in BOOLEAN : DeleteComplete(r, ok)
  \/ WAppendBlocks
  \/ DoCreate
  \/ WResolveByName
  \/ WCreatePage
  \/ WriteOutcome
  \/ WriteSummary


\* ------------------------------------------------------- the other handlers

TryCovers_notList(t) == t # "list"

\* whether the handler's try block covers the position an error is thrown at
\* (read, search, list, update, schema, comment, delete, move: the whole body)
TryCovers(t) == TRUE

\* an error thrown in a handler: its catch returns the formatted text, isError set
HThrow(e) ==
  /\ loc' = [loc EXCEPT !.err = e]
  /\ raised' = [raised EXCEPT !.thrown = @ + 1]
  /\ pc' = "done"
  /\ ret' = [NoRet EXCEPT !.done = TRUE, !.isError = TryCovers(tool),
                          !.escaped = ~TryCovers(tool)]

\* an error thrown out of detectObjectType, whose page fetch ended in o
ProbeThrow(o, e) ==
  /\ loc' = [loc EXCEPT !.err = e, !.probe = o]
  /\ raised' = [raised EXCEPT !.thrown = @ + 1]
  /\ pc' = "done"
  /\ ret' = [NoRet EXCEPT !.done = TRUE, !.isError = TryCovers(tool),
                          !.escaped = ~TryCovers(tool)]

\* the handler returns its text, no error flag
HReturn == [NoRet EXCEPT !.done = TRUE, !.total = 1, !.succeeded = 1]

\* ------------------------------------------------------- listChildren (client.ts)

\* blocks.children.list is asked for pages of this size
LIST_PAGE_SIZE == 100

IsChild_pagesOnly(b) == b.type = "child_page"

\* lines 319-322: the block is a child page or a child database
IsChild(b) == b.type \in {"child_page", "child_database"}

\* listChildren, lines 306-309: the locals before the loop
StartListing(page, limit) ==
  [page |-> page, limit |-> limit, cursor |-> 0, todo |-> <<>>, more |-> FALSE,
   kids |-> <<>>]

\* the listing after one response of the remote
Listed(lc, blocks) ==
  [lc EXCEPT !.todo = Slice(blocks, lc.cursor, LIST_PAGE_SIZE),
             !.more = lc.cursor + LIST_PAGE_SIZE < Len(blocks),
             !.cursor = Min(lc.cursor + LIST_PAGE_SIZE, Len(blocks))]

\* listChildren, lines 312-316: ask for the next page of the page's blocks
LcList ==
  /\ pc = "lc_list"
  /\ \E o \in Outcomes(KindOf(loc.lc.page) = "page", RemoteFailures) :
       /\ Request(o, KindOf(loc.lc.page) = "page", "blocks.children.list", loc.lc.page, 0)
       /\ IF o # NoError THEN HThrow(o)
          ELSE /\ loc' = [loc EXCEPT !.lc = Listed(@, content[loc.lc.page])]
               /\ pc' = "lc_blocks"
               /\ UNCHANGED <<raised, ret>>
  /\ UNCHANGED <<envKey, content, meta, tool, args, di, results, errors, inflight>>

\* listChildren, lines 318-334: visit the response's next block; a child page is
\* fetched and kept, or skipped when the fetch fails; the listing ends at maxItems
\* children or with the last response
LcBlock(after) ==
  /\ pc = "lc_blocks"
  /\ IF loc.lc.todo = <<>>
     THEN /\ pc' = IF loc.lc.more THEN "lc_list" ELSE after
          /\ UNCHANGED <<client, loc, reqs, raised, failures, ret>>
     ELSE LET b == Head(loc.lc.todo) IN
          IF ~IsChild(b)
          THEN /\ loc' = [loc EXCEPT !.lc.todo = Tail(@)]
               /\ UNCHANGED <<client, pc, reqs, raised, failures, ret>>
          ELSE \E o \in Outcomes(KindOf(b.id) = "page", PageFailures) :
                 /\ Request(o, KindOf(b.id) = "page", "pages.retrieve", b.id, 0)
                 /\ ret' = ret
                 /\ IF o = NoError
                    THEN /\ loc' = [loc EXCEPT !.lc.todo = Tail(@),
                                               !.lc.kids = Append(@, b.id)]
                         /\ pc' = IF Len(loc.lc.kids) + 1 >= loc.lc.limit
                                  THEN after ELSE pc
                         /\ raised' = raised
                    ELSE /\ loc' = [loc EXCEPT !.lc.todo = Tail(@),
                                               !.skipped = @ \cup {b.id}]
                         /\ pc' = pc
                         /\ raised' = [raised EXCEPT !.skipped = @ + 1]
  /\ UNCHANGED <<envKey, content, meta, tool, args, di, results, errors, inflight>>

\* ------------------------------------------------------- read (tools/read.ts)

ReadTargets == {Tok("uuid", "pg1"), Tok("url", "pg2"), Tok("raw", "row1"),
                Tok("uuid", "db1"), Tok("name", "Home")}

Frame(page, depth) == [page |-> page, depth |-> depth, kids |-> <<>>]

\* the handler is invoked
ReadStart(page, depth) ==
  /\ pc = "idle"
  /\ tool' = "read"
  /\ args' = [NoArgs EXCEPT !.page = page, !.depth = depth]
  /\ pc' = "r_begin"
  /\ UNCHANGED <<envKey, client, content, meta, di, results, errors, loc, inflight,
                 reqs, raised, failures, ret>>

\* lines 59-63: extractId, getClient, readRecursive(client, pageId, depth, 0, parts)
ReadBegin ==
  /\ tool = "read" /\ pc = "r_begin"
  /\ IF ~ClientOk
     THEN HThrow(McpError("AUTH_MISSING")) /\ client' = client
     ELSE /\ client' = "client"
          /\ loc' = [loc EXCEPT !.pageId = extractId(args.page),
                                !.stack = <<Frame(extractId(args.page), 0)>>]
          /\ pc' = "r_getPage"
          /\ UNCHANGED <<raised, ret>>
  /\ UNCHANGED <<envKey, content, meta, tool, args, di, results, errors, inflight,
                 reqs, failures>>

Top(stack) == stack[Len(stack)]
Pop(stack) == SubSeq(stack, 1, Len(stack) - 1)

\* readRecursive, line 85: getPage(pageId)
RGetPage ==
  /\ tool = "read" /\ pc = "r_getPage"
  /\ LET p == Top(loc.stack).page IN
     \E o \in Outcomes(KindOf(p) = "page", PageFailures) :
       /\ Request(o, KindOf(p) = "page", "pages.retrieve", p, 0)
       /\ IF o # NoError THEN HThrow(o)
          ELSE /\ pc' = "r_convert"
               /\ UNCHANGED <<loc, raised, ret>>
  /\ UNCHANGED <<envKey, content, meta, tool, args, di, results, errors, inflight>>

DepthRemains_oneMore(currentDepth, maxDepth) == currentDepth < maxDepth

\* readRecursive, line 89: children are read only while depth remains
DepthRemains(currentDepth, maxDepth) == ~(currentDepth + 1 >= maxDepth)

\* readRecursive, lines 86-92: pageToMarkdown (the converter lists the page's
\* blocks), parts.push, and listChildren(pageId) if depth remains
RConvert ==
  /\ tool = "read" /\ pc = "r_convert"
  /\ LET f == Top(loc.stack) IN
     \E o \in Outcomes(KindOf(f.page) = "page", RemoteFailures) :
       /\ Request(o, KindOf(f.page) = "page", "n2m.blocks.children.list", f.page, 0)
       /\ IF o # NoError THEN HThrow(o)
          ELSE /\ loc' = [loc EXCEPT
                     !.parts = Append(@, f.page),
                     !.lc = IF DepthRemains(f.depth, args.depth)
                            THEN StartListing(f.page, DEFAULT_CHILD_LIMIT)
                            ELSE NoListing]
               /\ pc' = IF DepthRemains(f.depth, args.depth) THEN "lc_list" ELSE "r_return"
               /\ UNCHANGED <<raised, ret>>
  /\ UNCHANGED <<envKey, content, meta, tool, args, di, results, errors, inflight>>

\* readRecursive, line 92: listChildren returned its children
RChildren ==
  /\ tool = "read" /\ pc = "r_children"
  /\ loc' = [loc EXCEPT !.stack[Len(loc.stack)].kids = loc.lc.kids, !.lc = NoListing]
  /\ pc' = "r_recurse"
  /\ UNCHANGED <<envKey, client, content, meta, tool, args, di, results, errors,
                 inflight, reqs, raised, failures, ret>>

\* readRecursive, lines 93-95: recurse into the next child, or return
RRecurse ==
  /\ tool = "read" /\ pc = "r_recurse"
  /\ LET f == Top(loc.stack) IN
     IF f.kids = <<>>
     THEN pc' = "r_return" /\ loc' = loc
     ELSE /\ loc' = [loc EXCEPT
                !.stack = Append([@ EXCEPT ![Len(@)].kids = Tail(f.kids)],
                                 Frame(Head(f.kids), f.depth + 1))]
          /\ pc' = "r_getPage"
  /\ UNCHANGED <<envKey, client, content, meta, tool, args, di, results, errors,
                 inflight, reqs, raised, failures, ret>>

\* a readRecursive call returns: to its caller's loop, or to the handler, which
\* returns the parts joined
RReturn ==
  /\ tool = "read" /\ pc = "r_return"
  /\ loc' = [loc EXCEPT !.stack = Pop(@)]
  /\ IF Len(loc.stack) = 1
     THEN pc' = "done" /\ ret' = HReturn
     ELSE pc' = "r_recurse" /\ ret' = ret
  /\ UNCHANGED <<envKey, client, content, meta, tool, args, di, results, errors,
                 inflight, reqs, raised, failures>>

ReadNext ==
  \/ \E page \in ReadTargets, depth \in 1..MAX_DEPTH : ReadStart(page, depth)
  \/ ReadBegin
  \/ RGetPage
  \/ RConvert
  \/ tool = "read" /\ LcList
  \/ tool = "read" /\ LcBlock("r_children")
  \/ RChildren
  \/ RRecurse
  \/ RReturn

\* ------------------------------------------------------- update (tools/update.ts)

UpdateTargets == {Tok("uuid", "row1"), Tok("url", "row2"), Tok("raw", "pg2"),
                  Tok("uuid", "db1"), Tok("url", "junk"), Tok("name", "Home"),
                  Tok("name", "Notes"), Tok("name", "Tasks")}

\* line 63: the input is taken for an id or a URL, not for a name
LooksLikeId(t) == isNotionId(t) \/ t.form = "url"

\* the handler is invoked
UpdateStart(page, props) ==
  /\ pc = "idle"
  /\ tool' = "update"
  /\ args' = [NoArgs EXCEPT !.page = page, !.props = props]
  /\ pc' = "u_begin"
  /\ UNCHANGED <<envKey, client, content, meta, di, results, errors, loc, inflight,
                 reqs, raised, failures, ret>>

\* lines 62-68: the page id from the id or URL, or by name
UBegin ==
  /\ tool = "update" /\ pc = "u_begin"
  /\ loc' = [loc EXCEPT
        !.fm = [NoDoc EXCEPT !.properties = args.props],
        !.pageId = IF LooksLikeId(args.page) THEN extractId(args.page) ELSE ""]
  /\ pc' = IF LooksLikeId(args.page) THEN "u_getPage" ELSE "u_resolve"
  /\ UNCHANGED <<envKey, client, content, meta, tool, args, di, results, errors,
                 inflight, reqs, raised, failures, ret>>

\* line 66: resolveByName(page, "page")
UResolve ==
  /\ tool = "update" /\ pc = "u_resolve"
  /\ \E o \in Outcomes(TRUE, RemoteFailures) :
       /\ Request(o, TRUE, "search", args.page.key, 0)
       /\ IF o # NoError THEN HThrow(o)
          ELSE \E rs \in SearchResults("page", RESOLVE_LIMIT) :
                 LET res == ResolveByName(args.page.key, rs) IN
                 IF res.err # NoError THEN HThrow(res.err)
                 ELSE /\ loc' = [loc EXCEPT !.pageId = res.id]
                      /\ pc' = "u_getPage"
                      /\ UNCHANGED <<raised, ret>>
  /\ UNCHANGED <<envKey, content, meta, tool, args, di, results, errors, inflight>>

\* resolveUpdateProperties, lines 113-121: the parent decides the schema
AfterUpdateGetPage(parent) ==
  CASE parent.type = "database_id" -> "u_dbRetrieve"
    [] parent.type = "data_source_id" -> "u_dsRetrieve"
    [] OTHER -> "u_updatePage"

\* line 71: getPage(pageId)
UGetPage ==
  /\ tool = "update" /\ pc = "u_getPage"
  /\ \E o \in Outcomes(KindOf(loc.pageId) = "page", PageFailures) :
       /\ Request(o, KindOf(loc.pageId) = "page", "pages.retrieve", loc.pageId, 0)
       /\ IF o # NoError THEN HThrow(o)
          ELSE /\ loc' = [loc EXCEPT
                     !.parent = ParentOf(loc.pageId),
                     !.dbId = IF ParentOf(loc.pageId).type = "database_id"
                              THEN ParentOf(loc.pageId).id ELSE "",
                     !.dsId = IF ParentOf(loc.pageId).type = "data_source_id"
                              THEN ParentOf(loc.pageId).id ELSE "",
                     !.props = buildPageProperties(loc.fm)]
               /\ pc' = AfterUpdateGetPage(ParentOf(loc.pageId))
               /\ UNCHANGED <<raised, ret>>
  /\ UNCHANGED <<envKey, content, meta, tool, args, di, results, errors, inflight>>

\* resolveUpdateProperties, line 114: getDatabaseDataSourceId(parent.database_id)
UDbRetrieve ==
  /\ tool = "update" /\ pc = "u_dbRetrieve"
  /\ \E o \in Outcomes(KindOf(loc.dbId) = "database", RemoteFailures) :
       /\ Request(o, KindOf(loc.dbId) = "database", "databases.retrieve", loc.dbId, 0)
       /\ IF o # NoError THEN HThrow(o)
          ELSE IF DataSourcesOf(loc.dbId) = <<>>
          THEN HThrow(McpError("NO_DATA_SOURCE"))
          ELSE /\ loc' = [loc EXCEPT !.dsId = DataSourcesOf(loc.dbId)[1]]
               /\ pc' = "u_dsRetrieve"
               /\ UNCHANGED <<raised, ret>>
  /\ UNCHANGED <<envKey, content, meta, tool, args, di, results, errors, inflight>>

\* resolveUpdateProperties, lines 115-119: getDataSource, frontmatterToProperties
UDsRetrieve ==
  /\ tool = "update" /\ pc = "u_dsRetrieve"
  /\ \E o \in Outcomes(KindOf(loc.dsId) = "data_source", PageFailures) :
       /\ Request(o, KindOf(loc.dsId) = "data_source", "dataSources.retrieve", loc.dsId, 0)
       /\ IF o # NoError THEN HThrow(o)
          ELSE /\ loc' = [loc EXCEPT
                     !.props = frontmatterToProperties(loc.fm, SchemaOf(loc.dsId))]
               /\ pc' = "u_updatePage"
               /\ UNCHANGED <<raised, ret>>
  /\ UNCHANGED <<envKey, content, meta, tool, args, di, results, errors, inflight>>

UpdateToolParams_icon(props) == [properties |-> props, icon |-> "I", cover |-> None]

\* line 77: the update carries the properties and nothing else
UpdateToolParams(props) == [properties |-> props, icon |-> None, cover |-> None]

\* line 77: updatePage(pageId, { properties }), then the handler returns its text
UUpdatePage ==
  /\ tool = "update" /\ pc = "u_updatePage"
  /\ \E o \in Outcomes(KindOf(loc.pageId) = "page", PageFailures) :
       /\ Request(o, KindOf(loc.pageId) = "page", "pages.update", loc.pageId, 0)
       /\ meta' = IF o = NoError \/ o = McpError("PARTIAL_RESPONSE")
                  THEN [meta EXCEPT ![loc.pageId] =
                          ApplyUpdate(@, UpdateToolParams(loc.props))]
                  ELSE meta
       /\ IF o # NoError THEN HThrow(o)
          ELSE /\ loc' = [loc EXCEPT !.result = "Updated"]
               /\ pc' = "done"
               /\ ret' = HReturn
               /\ raised' = raised
  /\ UNCHANGED <<envKey, content, tool, args, di, results, errors, inflight>>

UpdateNext ==
  \/ \E page \in UpdateTargets, props \in {NoProps, SomeProps} : UpdateStart(page, props)
  \/ UBegin
  \/ UResolve
  \/ UGetPage
  \/ UDbRetrieve
  \/ UDsRetrieve
  \/ UUpdatePage

\* ------------------------------------------------------- detectObjectType

STATUS_UNAUTHORIZED == 401
STATUS_FORBIDDEN == 403

\* what the page fetch of the probe may throw: the failures of any page fetch,
\* a rejected credential, a page not shared with the integration, the network
ProbeFailures ==
  PageFailures \cup {ApiError(STATUS_UNAUTHORIZED), ApiError(STATUS_FORBIDDEN),
                     PlainError("network")}

DetectObjectType_anyFailure(o) ==
  IF o = NoError THEN [type |-> "page", err |-> NoError]
  ELSE [type |-> "database", err |-> NoError]

\* detectObjectType, lines 348-358: a page when the fetch succeeds, a database
\* when it fails with status 404, any other error is thrown again
DetectObjectType(o) ==
  IF o = NoError THEN [type |-> "page", err |-> NoError]
  ELSE IF o.kind = "api" /\ o.status = STATUS_NOT_FOUND
  THEN [type |-> "database", err |-> NoError]
  ELSE [type |-> "", err |-> o]

\* ------------------------------------------------------- search (tools/search.ts)

SEARCH_DEFAULT_LIMIT == 10

SearchFilters == {"page", "database", "all"}

\* the handler is invoked
SearchStart(query, filter) ==
  /\ pc = "idle"
  /\ tool' = "search"
  /\ args' = [NoArgs EXCEPT !.query = query, !.filter = filter,
                            !.limit = SEARCH_DEFAULT_LIMIT]
  /\ pc' = "s_search"
  /\ UNCHANGED <<envKey, client, content, meta, di, results, errors, loc, inflight,
                 reqs, raised, failures, ret>>

\* lines 40-74: search, then the result list as text
SSearch ==
  /\ tool = "search" /\ pc = "s_search"
  /\ \E o \in Outcomes(TRUE, RemoteFailures) :
       /\ Request(o, TRUE, "search", args.query, 0)
       /\ IF o # NoError THEN HThrow(o)
          ELSE \E rs \in SearchResults(args.filter, args.limit) :
                 /\ loc' = [loc EXCEPT !.i = Cardinality(rs), !.result = "Search results"]
                 /\ pc' = "done"
                 /\ ret' = HReturn
                 /\ raised' = raised
  /\ UNCHANGED <<envKey, content, meta, tool, args, di, results, errors, inflight>>

SearchNext ==
  \/ \E query \in {"Home", "Notes", "zzz"}, filter \in SearchFilters :
       SearchStart(query, filter)
  \/ SSearch

\* ------------------------------------------------------- list (tools/list.ts)

LIST_DEFAULT_LIMIT == 50
QUERY_PAGE_MAX == 100

ListTargets == {Tok("uuid", "pg1"), Tok("url", "pg2"), Tok("uuid", "db1"),
                Tok("raw", "db2"), Tok("name", "Tasks"), Tok("name", "Home"),
                Tok("name", "zzz")}

\* the rows of a data source, in the order the remote returns them
RowsOf(ds) ==
  CASE ds = "ds1" -> <<"row1", "row2">>
    [] ds = "ds99" -> [k \in 1..99 |-> k]
    [] ds = "ds100" -> [k \in 1..100 |-> k]
    [] ds = "ds101" -> [k \in 1..101 |-> k]
    [] ds = "ds200" -> [k \in 1..200 |-> k]
    [] ds = "dsMax" -> [k \in 1..MaxRows |-> k]
    [] OTHER -> <<>>

\* the handler is invoked
ListStart(target, limit) ==
  /\ pc = "idle"
  /\ tool' = "list"
  /\ args' = [NoArgs EXCEPT !.page = target, !.limit = limit]
  /\ pc' = "l_begin"
  /\ UNCHANGED <<envKey, client, content, meta, di, results, errors, loc, inflight,
                 reqs, raised, failures, ret>>

\* lines 76-84: an id or URL is probed for its kind, a name is resolved
LBegin ==
  /\ tool = "list" /\ pc = "l_begin"
  /\ loc' = [loc EXCEPT
        !.pageId = IF LooksLikeId(args.page) THEN extractId(args.page) ELSE ""]
  /\ pc' = IF LooksLikeId(args.page) THEN "l_detect" ELSE "l_resolve"
  /\ UNCHANGED <<envKey, client, content, meta, tool, args, di, results, errors,
                 inflight, reqs, raised, failures, ret>>

\* lines 86-90: listDatabase for a database, listPageChildren for a page
AfterListTarget(type) == IF type = "database" THEN "l_dbRetrieve" ELSE "l_getPage"

\* line 78: detectObjectType(targetId)
LDetect ==
  /\ tool = "list" /\ pc = "l_detect"
  /\ \E o \in Outcomes(KindOf(loc.pageId) = "page", ProbeFailures) :
       /\ Request(o, KindOf(loc.pageId) = "page", "pages.retrieve", loc.pageId, 0)
       /\ LET det == DetectObjectType(o) IN
          IF det.err # NoError THEN ProbeThrow(o, det.err)
          ELSE /\ loc' = [loc EXCEPT !.target = [type |-> det.type, id |-> loc.pageId],
                                     !.probe = o,
                                     !.dbId = IF det.type = "database" THEN loc.pageId
                                              ELSE ""]
               /\ pc' = AfterListTarget(det.type)
               /\ raised' = IF o # NoError THEN [raised EXCEPT !.probed = @ + 1]
                            ELSE raised
               /\ ret' = ret
  /\ UNCHANGED <<envKey, content, meta, tool, args, di, results, errors, inflight>>

\* line 81: resolveByName(target)
LResolve ==
  /\ tool = "list" /\ pc = "l_resolve"
  /\ \E o \in Outcomes(TRUE, RemoteFailures) :
       /\ Request(o, TRUE, "search", args.page.key, 0)
       /\ IF o # NoError THEN HThrow(o)
          ELSE \E rs \in SearchResults("all", RESOLVE_LIMIT) :
                 LET res == ResolveByName(args.page.key, rs) IN
                 IF res.err # NoError THEN HThrow(res.err)
                 ELSE /\ loc' = [loc EXCEPT
                            !.pageId = res.id,
                            !.target = [type |-> res.object, id |-> res.id],
                            !.dbId = IF res.object = "database" THEN res.id ELSE ""]
                      /\ pc' = AfterListTarget(res.object)
                      /\ UNCHANGED <<raised, ret>>
  /\ UNCHANGED <<envKey, content, meta, tool, args, di, results, errors, inflight>>

\* listDatabase, line 109: getDatabaseDataSourceId(dbId)
LDbRetrieve ==
  /\ tool = "list" /\ pc = "l_dbRetrieve"
  /\ \E o \in Outcomes(KindOf(loc.dbId) = "database", RemoteFailures) :
       /\ Request(o, KindOf(loc.dbId) = "database", "databases.retrieve", loc.dbId, 0)
       /\ IF o # NoError THEN HThrow(o)
          ELSE IF DataSourcesOf(loc.dbId) = <<>>
          THEN HThrow(McpError("NO_DATA_SOURCE"))
          ELSE /\ loc' = [loc EXCEPT !.dsId = DataSourcesOf(loc.dbId)[1]]
               /\ pc' = "l_dsRetrieve"
               /\ UNCHANGED <<raised, ret>>
  /\ UNCHANGED <<envKey, content, meta, tool, args, di, results, errors, inflight>>

\* listDatabase, lines 110-111: getDataSource(dsId), its schema
LDsRetrieve ==
  /\ tool = "list" /\ pc = "l_dsRetrieve"
  /\ \E o \in Outcomes(KindOf(loc.dsId) = "data_source", PageFailures) :
       /\ Request(o, KindOf(loc.dsId) = "data_source", "dataSources.retrieve", loc.dsId, 0)
       /\ IF o # NoError THEN HThrow(o)
          ELSE /\ pc' = "l_query"
               /\ UNCHANGED <<loc, raised, ret>>
  /\ UNCHANGED <<envKey, content, meta, tool, args, di, results, errors, inflight>>

LQuery_fullPages ==
  /\ tool = "list" /\ pc = "l_query"
  /\ LET pageSize == QUERY_PAGE_MAX
         rows == RowsOf(loc.dsId)
         got == loc.list \o Slice(rows, loc.i, pageSize)
         more == loc.i + pageSize < Len(rows)
     IN \E o \in Outcomes(KindOf(loc.dsId) = "data_source", RemoteFailures) :
          /\ Request(o, KindOf(loc.dsId) = "data_source", "dataSources.query", loc.dsId,
                     pageSize)
          /\ IF o # NoError THEN HThrow(o)
             ELSE IF more /\ Len(got) < args.limit
             THEN /\ loc' = [loc EXCEPT !.list = got, !.i = @ + pageSize]
                  /\ UNCHANGED <<pc, raised, ret>>
             ELSE /\ loc' = [loc EXCEPT !.list = Slice(got, 0, args.limit),
                                        !.i = @ + pageSize, !.result = "Table"]
                  /\ pc' = "done"
                  /\ ret' = HReturn
                  /\ raised' = raised
  /\ UNCHANGED <<envKey, content, meta, tool, args, di, results, errors, inflight>>

\* queryDataSource, lines 182-203: one query of at most QUERY_PAGE_MAX rows; the
\* loop goes on while rows are missing and the remote has more; then the table
LQuery ==
  /\ tool = "list" /\ pc = "l_query"
  /\ LET pageSize == Min(QUERY_PAGE_MAX, args.limit - Len(loc.list))
         rows == RowsOf(loc.dsId)
         got == loc.list \o Slice(rows, loc.i, pageSize)
         more == loc.i + pageSize < Len(rows)
     IN \E o \in Outcomes(KindOf(loc.dsId) = "data_source", RemoteFailures) :
          /\ Request(o, KindOf(loc.dsId) = "data_source", "dataSources.query", loc.dsId,
                     pageSize)
          /\ IF o # NoError THEN HThrow(o)
             ELSE IF more /\ Len(got) < args.limit
             THEN /\ loc' = [loc EXCEPT !.list = got, !.i = @ + pageSize]
                  /\ UNCHANGED <<pc, raised, ret>>
             ELSE /\ loc' = [loc EXCEPT !.list = Slice(got, 0, args.limit),
                                        !.i = @ + pageSize, !.result = "Table"]
                  /\ pc' = "done"
                  /\ ret' = HReturn
                  /\ raised' = raised
  /\ UNCHANGED <<envKey, content, meta, tool, args, di, results, errors, inflight>>

\* listPageChildren, lines 158-165: getPage(pageId), then listChildren(pageId, limit)
LGetPage ==
  /\ tool = "list" /\ pc = "l_getPage"
  /\ \E o \in Outcomes(KindOf(loc.pageId) = "page", PageFailures) :
       /\ Request(o, KindOf(loc.pageId) = "page", "pages.retrieve", loc.pageId, 0)
       /\ IF o # NoError THEN HThrow(o)
          ELSE /\ loc' = [loc EXCEPT !.lc = StartListing(loc.pageId, args.limit)]
               /\ pc' = "lc_list"
               /\ UNCHANGED <<raised, ret>>
  /\ UNCHANGED <<envKey, content, meta, tool, args, di, results, errors, inflight>>

\* listPageChildren, lines 167-181: the numbered list of the children
LChildren ==
  /\ tool = "list" /\ pc = "l_children"
  /\ loc' = [loc EXCEPT !.list = loc.lc.kids, !.result = "Children"]
  /\ pc' = "done"
  /\ ret' = HReturn
  /\ UNCHANGED <<envKey, client, content, meta, tool, args, di, results, errors,
                 inflight, reqs, raised, failures>>

ListNext ==
  \/ \E target \in ListTargets, limit \in {1, LIST_DEFAULT_LIMIT} : ListStart(target, limit)
  \/ LBegin
  \/ LDetect
  \/ LResolve
  \/ LDbRetrieve
  \/ LDsRetrieve
  \/ LQuery
  \/ LGetPage
  \/ tool = "list" /\ LcList
  \/ tool = "list" /\ LcBlock("l_children")
  \/ LChildren

\* ------------------------------------------------------- move (tools/move.ts)

MoveSources == {Tok("uuid", "pg3"), Tok("url", "row1"), Tok("name", "Home")}
MoveTargets == {Tok("uuid", "pg2"), Tok("uuid", "db1"), Tok("raw", "ds1"),
                Tok("name", "Tasks"), Tok("name", "Home"), Tok("name", "Notes")}

\* the handler is invoked
MoveStart(page, to) ==
  /\ pc = "idle"
  /\ tool' = "move"
  /\ args' = [NoArgs EXCEPT !.page = page, !.to = to]
  /\ pc' = "m_getPage"
  /\ UNCHANGED <<envKey, client, content, meta, di, results, errors, loc, inflight,
                 reqs, raised, failures, ret>>

\* lines 22-25: extractId(page), getPage(pageId)
MGetPage ==
  /\ tool = "move" /\ pc = "m_getPage"
  /\ LET pageId == extractId(args.page) IN
     \E o \in Outcomes(KindOf(pageId) = "page", PageFailures) :
       /\ Request(o, KindOf(pageId) = "page", "pages.retrieve", pageId, 0)
       /\ IF o # NoError THEN HThrow(o)
          ELSE /\ loc' = [loc EXCEPT !.pageId = pageId]
               /\ pc' = IF LooksLikeId(args.to) THEN "m_detect" ELSE "m_resolve"
               /\ UNCHANGED <<raised, ret>>
  /\ UNCHANGED <<envKey, content, meta, tool, args, di, results, errors, inflight>>

\* lines 41 and 45: the parent type a destination of that kind gets
DestType(type) == IF type = "page" THEN "page_id" ELSE "data_source_id"

\* lines 38-41: extractId(to), detectObjectType(destId)
MDetect ==
  /\ tool = "move" /\ pc = "m_detect"
  /\ LET destId == extractId(args.to) IN
     \E o \in Outcomes(KindOf(destId) = "page", ProbeFailures) :
       /\ Request(o, KindOf(destId) = "page", "pages.retrieve", destId, 0)
       /\ LET det == DetectObjectType(o) IN
          IF det.err # NoError THEN ProbeThrow(o, det.err)
          ELSE /\ loc' = [loc EXCEPT !.target = [type |-> DestType(det.type),
                                                 id |-> destId],
                                     !.probe = o]
               /\ pc' = "m_movePage"
               /\ raised' = IF o # NoError THEN [raised EXCEPT !.probed = @ + 1]
                            ELSE raised
               /\ ret' = ret
  /\ UNCHANGED <<envKey, content, meta, tool, args, di, results, errors, inflight>>

\* lines 43-45: resolveByName(to)
MResolve ==
  /\ tool = "move" /\ pc = "m_resolve"
  /\ \E o \in Outcomes(TRUE, RemoteFailures) :
       /\ Request(o, TRUE, "search", args.to.key, 0)
       /\ IF o # NoError THEN HThrow(o)
          ELSE \E rs \in SearchResults("all", RESOLVE_LIMIT) :
                 LET res == ResolveByName(args.to.key, rs) IN
                 IF res.err # NoError THEN HThrow(res.err)
                 ELSE /\ loc' = [loc EXCEPT !.target = [type |-> DestType(res.object),
                                                        id |-> res.id]]
                      /\ pc' = "m_movePage"
                      /\ UNCHANGED <<raised, ret>>
  /\ UNCHANGED <<envKey, content, meta, tool, args, di, results, errors, inflight>>

\* whether the remote can move the page under the parent the request names
MoveAccepted(pageId, target) ==
  /\ KindOf(pageId) = "page" /\ target.id # pageId
  /\ \/ target.type = "page_id" /\ KindOf(target.id) = "page"
     \/ target.type = "data_source_id" /\ KindOf(target.id) = "data_source"

\* line 48: movePage(pageId, destId, destType), then the handler returns its text
MMovePage ==
  /\ tool = "move" /\ pc = "m_movePage"
  /\ \E o \in Outcomes(MoveAccepted(loc.pageId, loc.target), PageFailures) :
       /\ Request(o, MoveAccepted(loc.pageId, loc.target), "pages.move", loc.pageId, 0)
       /\ meta' = IF o = NoError \/ o = McpError("PARTIAL_RESPONSE")
                  THEN [meta EXCEPT ![loc.pageId].parent = loc.target]
                  ELSE meta
       /\ IF o # NoError THEN HThrow(o)
          ELSE /\ loc' = [loc EXCEPT !.result = "Moved"]
               /\ pc' = "done"
               /\ ret' = HReturn
               /\ raised' = raised
  /\ UNCHANGED <<envKey, content, tool, args, di, results, errors, inflight>>

MoveNext ==
  \/ \E page \in MoveSources, to \in MoveTargets : MoveStart(page, to)
  \/ MGetPage
  \/ MDetect
  \/ MResolve
  \/ MMovePage

\* ------------------------------------------------------- comment (tools/comment.ts)

COMMENT_PAGE_SIZE == 100

CommentTargets == {Tok("uuid", "pg1"), Tok("url", "pg2"), Tok("uuid", "db1"),
                   Tok("name", "Home"), Tok("name", "Notes")}

\* the comments a page has before the call
CommentsOf(p) == IF p = "pg1" THEN 2 ELSE 0

\* the handler is invoked; the body is "" when omitted
CommentStart(page, body) ==
  /\ pc = "idle"
  /\ tool' = "comment"
  /\ args' = [NoArgs EXCEPT !.page = page, !.body = body]
  /\ pc' = "c_begin"
  /\ UNCHANGED <<envKey, client, content, meta, di, results, errors, loc, inflight,
                 reqs, raised, failures, ret>>

\* lines 47-51: addComment when there is a body, listComments otherwise
AfterCommentTarget(body) == IF body # "" THEN "c_add" ELSE "c_list"

\* lines 37-43: the page id from the id or URL, or by name
CBegin ==
  /\ tool = "comment" /\ pc = "c_begin"
  /\ loc' = [loc EXCEPT
        !.pageId = IF LooksLikeId(args.page) THEN extractId(args.page) ELSE ""]
  /\ pc' = IF LooksLikeId(args.page) THEN AfterCommentTarget(args.body) ELSE "c_resolve"
  /\ UNCHANGED <<envKey, client, content, meta, tool, args, di, results, errors,
                 inflight, reqs, raised, failures, ret>>

\* line 41: resolveByName(page, "page")
CResolve ==
  /\ tool = "comment" /\ pc = "c_resolve"
  /\ \E o \in Outcomes(TRUE, RemoteFailures) :
       /\ Request(o, TRUE, "search", args.page.key, 0)
       /\ IF o # NoError THEN HThrow(o)
          ELSE \E rs \in SearchResults("page", RESOLVE_LIMIT) :
                 LET res == ResolveByName(args.page.key, rs) IN
                 IF res.err # NoError THEN HThrow(res.err)
                 ELSE /\ loc' = [loc EXCEPT !.pageId = res.id]
                      /\ pc' = AfterCommentTarget(args.body)
                      /\ UNCHANGED <<raised, ret>>
  /\ UNCHANGED <<envKey, content, meta, tool, args, di, results, errors, inflight>>

\* addComment, lines 59-74: getClient, comments.create
CAdd ==
  /\ tool = "comment" /\ pc = "c_add"
  /\ \E o \in Outcomes(KindOf(loc.pageId) = "page", RemoteFailures) :
       /\ Request(o, KindOf(loc.pageId) = "page", "comments.create", loc.pageId, 0)
       /\ meta' = IF o = NoError THEN [meta EXCEPT ![loc.pageId].comments = 1]
                  ELSE meta
       /\ IF o # NoError THEN HThrow(o)
          ELSE /\ loc' = [loc EXCEPT !.result = "Comment added"]
               /\ pc' = "done"
               /\ ret' = HReturn
               /\ raised' = raised
  /\ UNCHANGED <<envKey, content, tool, args, di, results, errors, inflight>>

\* listComments, lines 76-119: comments.list until the remote has no more
CList ==
  /\ tool = "comment" /\ pc = "c_list"
  /\ \E o \in Outcomes(KindOf(loc.pageId) = "page", RemoteFailures) :
       /\ Request(o, KindOf(loc.pageId) = "page", "comments.list", loc.pageId, 0)
       /\ IF o # NoError THEN HThrow(o)
          ELSE IF loc.i + COMMENT_PAGE_SIZE < CommentsOf(loc.pageId)
          THEN /\ loc' = [loc EXCEPT !.i = @ + COMMENT_PAGE_SIZE]
               /\ UNCHANGED <<pc, raised, ret>>
          ELSE /\ loc' = [loc EXCEPT !.i = CommentsOf(loc.pageId), !.result = "Comments"]
               /\ pc' = "done"
               /\ ret' = HReturn
               /\ raised' = raised
  /\ UNCHANGED <<envKey, content, meta, tool, args, di, results, errors, inflight>>

CommentNext ==
  \/ \E page \in CommentTargets, body \in {"", "hello"} : CommentStart(page, body)
  \/ CBegin
  \/ CResolve
  \/ CAdd
  \/ CList

\* ------------------------------------------------------- schema (tools/schema.ts)

PROPERTY_TYPES ==
  {"title", "rich_text", "number", "select", "multi_select", "date", "checkbox",
   "url", "email", "phone_number", "status", "people", "files", "relation"}

SchemaTargets == {Tok("uuid", "db1"), Tok("raw", "db2"), Tok("uuid", "pg1"),
                  Tok("name", "Tasks"), Tok("name", "zzz")}

SchemaCall(action, property, type, name) ==
  [action |-> action, property |-> property, type |-> type, name |-> name]

\* the calls: a field is "" when omitted
SchemaCalls ==
  { SchemaCall("list", "", "", ""),
    SchemaCall("add", "", "select", ""),
    SchemaCall("add", "Priority", "", ""),
    SchemaCall("add", "Priority", "formula", ""),
    SchemaCall("add", "Priority", "select", ""),
    SchemaCall("remove", "Status", "", ""),
    SchemaCall("remove", "Nope", "", ""),
    SchemaCall("rename", "Status", "", ""),
    SchemaCall("rename", "Status", "", "State"),
    SchemaCall("rename", "Nope", "", "State") }

\* the handler is invoked
SchemaStart(database, c) ==
  /\ pc = "idle"
  /\ tool' = "schema"
  /\ args' = [NoArgs EXCEPT !.page = database, !.action = c.action,
                            !.property = c.property, !.type = c.type, !.name = c.name]
  /\ pc' = "sc_begin"
  /\ UNCHANGED <<envKey, client, content, meta, di, results, errors, loc, inflight,
                 reqs, raised, failures, ret>>

\* lines 76-82: the database id from the id or URL, or by name
SBegin ==
  /\ tool = "schema" /\ pc = "sc_begin"
  /\ loc' = [loc EXCEPT
        !.dbId = IF LooksLikeId(args.page) THEN extractId(args.page) ELSE ""]
  /\ pc' = IF LooksLikeId(args.page) THEN "sc_dbRetrieve" ELSE "sc_resolve"
  /\ UNCHANGED <<envKey, client, content, meta, tool, args, di, results, errors,
                 inflight, reqs, raised, failures, ret>>

\* line 80: resolveByName(database, "database")
SResolve ==
  /\ tool = "schema" /\ pc = "sc_resolve"
  /\ \E o \in Outcomes(TRUE, RemoteFailures) :
       /\ Request(o, TRUE, "search", args.page.key, 0)
       /\ IF o # NoError THEN HThrow(o)
          ELSE \E rs \in SearchResults("database", RESOLVE_LIMIT) :
                 LET res == ResolveByName(args.page.key, rs) IN
                 IF res.err # NoError THEN HThrow(res.err)
                 ELSE /\ loc' = [loc EXCEPT !.dbId = res.id]
                      /\ pc' = "sc_dbRetrieve"
                      /\ UNCHANGED <<raised, ret>>
  /\ UNCHANGED <<envKey, content, meta, tool, args, di, results, errors, inflight>>

\* lines 86-111 and addProperty, lines 167-178: what follows the data source id:
\* the error of a missing or unsupported argument, or the next request
SchemaDispatch(a) ==
  IF a.action = "list" THEN [err |-> NoError, pc |-> "sc_getDataSource"]
  ELSE IF a.property = "" THEN [err |-> McpError("MISSING_PROPERTY"), pc |-> ""]
  ELSE IF a.action = "add"
  THEN IF a.type = "" THEN [err |-> McpError("MISSING_TYPE"), pc |-> ""]
       ELSE IF a.type \notin PROPERTY_TYPES
       THEN [err |-> McpError("INVALID_TYPE"), pc |-> ""]
       ELSE [err |-> NoError, pc |-> "sc_update"]
  ELSE IF a.action = "remove" THEN [err |-> NoError, pc |-> "sc_getDataSource"]
  ELSE IF a.action = "rename"
  THEN IF a.name = "" THEN [err |-> McpError("MISSING_NAME"), pc |-> ""]
       ELSE [err |-> NoError, pc |-> "sc_getDataSource"]
  ELSE [err |-> McpError("INVALID_ACTION"), pc |-> ""]

\* line 84: getDatabaseDataSourceId(dbId), then the action is dispatched
SDbRetrieve ==
  /\ tool = "schema" /\ pc = "sc_dbRetrieve"
  /\ \E o \in Outcomes(KindOf(loc.dbId) = "database", RemoteFailures) :
       /\ Request(o, KindOf(loc.dbId) = "database", "databases.retrieve", loc.dbId, 0)
       /\ IF o # NoError THEN HThrow(o)
          ELSE IF DataSourcesOf(loc.dbId) = <<>>
          THEN HThrow(McpError("NO_DATA_SOURCE"))
          ELSE IF SchemaDispatch(args).err # NoError
          THEN HThrow(SchemaDispatch(args).err)
          ELSE /\ loc' = [loc EXCEPT !.dsId = DataSourcesOf(loc.dbId)[1]]
               /\ pc' = SchemaDispatch(args).pc
               /\ UNCHANGED <<raised, ret>>
  /\ UNCHANGED <<envKey, content, meta, tool, args, di, results, errors, inflight>>

\* listSchema, removeProperty, renameProperty: getDataSource(dsId); list returns
\* the schema's table, remove and rename need the property to be there
SGetDataSource ==
  /\ tool = "schema" /\ pc = "sc_getDataSource"
  /\ \E o \in Outcomes(KindOf(loc.dsId) = "data_source", PageFailures) :
       /\ Request(o, KindOf(loc.dsId) = "data_source", "dataSources.retrieve", loc.dsId, 0)
       /\ IF o # NoError THEN HThrow(o)
          ELSE IF args.action = "list"
          THEN /\ loc' = [loc EXCEPT !.result = "Schema"]
               /\ pc' = "done"
               /\ ret' = HReturn
               /\ raised' = raised
          ELSE IF SchemaFind(SchemaOf(loc.dsId), args.property) = 0
          THEN HThrow(McpError("PROPERTY_NOT_FOUND"))
          ELSE /\ pc' = "sc_update"
               /\ UNCHANGED <<loc, raised, ret>>
  /\ UNCHANGED <<envKey, content, meta, tool, args, di, results, errors, inflight>>

\* addProperty, removeProperty, renameProperty: dataSources.update of one property
SUpdate ==
  /\ tool = "schema" /\ pc = "sc_update"
  /\ \E o \in Outcomes(KindOf(loc.dsId) = "data_source", RemoteFailures) :
       /\ Request(o, KindOf(loc.dsId) = "data_source", "dataSources.update", loc.dsId, 0)
       /\ meta' = IF o = NoError
                  THEN [meta EXCEPT ![loc.dsId].schema =
                          <<[name |-> args.property, value |-> args.action]>>]
                  ELSE meta
       /\ IF o # NoError THEN HThrow(o)
          ELSE /\ loc' = [loc EXCEPT !.result = "Schema changed"]
               /\ pc' = "done"
               /\ ret' = HReturn
               /\ raised' = raised
  /\ UNCHANGED <<envKey, content, tool, args, di, results, errors, inflight>>

SchemaNext ==
  \/ \E database \in SchemaTargets, c \in SchemaCalls : SchemaStart(database, c)
  \/ SBegin
  \/ SResolve
  \/ SDbRetrieve
  \/ SGetDataSource
  \/ SUpdate

\* ------------------------------------------------------- delete (tools/delete.ts)

DeleteTargets == {Tok("uuid", "pg3"), Tok("url", "row1"), Tok("uuid", "db1"),
                  Tok("name", "Home")}

\* the handler is invoked
DeleteStart(page) ==
  /\ pc = "idle"
  /\ tool' = "delete"
  /\ args' = [NoArgs EXCEPT !.page = page]
  /\ pc' = "d_getPage"
  /\ UNCHANGED <<envKey, client, content, meta, di, results, errors, loc, inflight,
                 reqs, raised, failures, ret>>

\* extractId(page), then getPage(pageId) for the title
DGetPage ==
  /\ tool = "delete" /\ pc = "d_getPage"
  /\ LET pageId == extractId(args.page) IN
     \E o \in Outcomes(KindOf(pageId) = "page", PageFailures) :
       /\ Request(o, KindOf(pageId) = "page", "pages.retrieve", pageId, 0)
       /\ IF o # NoError THEN HThrow(o)
          ELSE /\ loc' = [loc EXCEPT !.pageId = pageId]
               /\ pc' = "d_archive"
               /\ UNCHANGED <<raised, ret>>
  /\ UNCHANGED <<envKey, content, meta, tool, args, di, results, errors, inflight>>

\* archivePage(pageId): a page update with archived set; then the handler returns
DArchivePage ==
  /\ tool = "delete" /\ pc = "d_archive"
  /\ \E o \in Outcomes(KindOf(loc.pageId) = "page", PageFailures) :
       /\ Request(o, KindOf(loc.pageId) = "page", "pages.archive", loc.pageId, 0)
       /\ meta' = IF o = NoError \/ o = McpError("PARTIAL_RESPONSE")
                  THEN [meta EXCEPT ![loc.pageId].archived = TRUE]
                  ELSE meta
       /\ IF o # NoError THEN HThrow(o)
          ELSE /\ loc' = [loc EXCEPT !.result = "Archived"]
               /\ pc' = "done"
               /\ ret' = HReturn
               /\ raised' = raised
  /\ UNCHANGED <<envKey, content, tool, args, di, results, errors, inflight>>

DeleteNext ==
  \/ \E page \in DeleteTargets : DeleteStart(page)
  \/ DGetPage
  \/ DArchivePage

\* ------------------------------------------------------- the server

Next ==
  \/ WriteNext
  \/ ReadNext
  \/ SearchNext
  \/ ListNext
  \/ UpdateNext
  \/ SchemaNext
  \/ CommentNext
  \/ DeleteNext
  \/ MoveNext

Spec == Init /\ [][Next]_vars

\* read alone; every enabled step of the handler is eventually taken (each awaited
\* request settles and its continuation runs)
SpecRead == Init /\ [][ReadNext]_vars /\ WF_vars(ReadNext)

\* ------------------------------------------------------- properties: write

\* a document is being processed by write
InDocument == tool = "write" /\ loc.route # ""

UpdatePcs == {"doUpdate", "getPage", "updatePage", "listBlocks", "deleteBatch",
              "deleteWait", "appendBlocks"}
CreatePcs == {"doCreate", "resolveByName", "createPage"}
UpdateRequests == {"pages.retrieve", "pages.update", "blocks.children.list",
                   "blocks.delete", "blocks.children.append"}
CreateRequests == {"search", "pages.create"}

Kinds(log) == {log[k].k : k \in 1..Len(log)}

\* C1: in mode "auto" a document takes the update path iff its header carries an
\* id, mode "update" always takes the update path and mode "create" the create
\* path, and a document never takes both or neither.
C1_ModeSelection ==
  InDocument =>
    LET expected ==
          CASE args.mode = "update" -> "update"
            [] args.mode = "create" -> "create"
            [] OTHER -> IF Truthy(loc.fm.id) THEN "update" ELSE "create"
    IN /\ pc \in UpdatePcs => expected = "update"
       /\ pc \in CreatePcs => expected = "create"
       /\ pc # "w_invalid"
       /\ Kinds(reqs) \cap UpdateRequests # {} => expected = "update"
       /\ Kinds(reqs) \cap CreateRequests # {} => expected = "create"
       /\ ~(Kinds(reqs) \cap UpdateRequests # {} /\ Kinds(reqs) \cap CreateRequests # {})

\* mode "create" with an id in the header: the page is created
C1_Witness ==
  /\ InDocument /\ args.mode = "create" /\ Truthy(loc.fm.id)
  /\ "pages.create" \in Kinds(reqs) /\ pc = "w_ok"

BlankUpdate == InDocument /\ loc.route = "update" /\ loc.fm.body = "blank"

BlockRequests == {"blocks.children.list", "blocks.delete", "blocks.children.append"}

\* C3: a write update with a blank body issues no block-list, block-delete or
\* block-append request and leaves the page's blocks as they are, while the page
\* update (properties, icon, cover) is still sent and applied.
C3_BlankBodyKeepsBlocks ==
  [][BlankUpdate =>
       /\ Kinds(reqs') \cap BlockRequests = {}
       /\ inflight = {} => (content' = content /\ inflight' = {})
       /\ (pc # "w_ok" /\ pc' = "w_ok") =>
            /\ pc = "updatePage"
            /\ reqs' = Append(reqs, Req("pages.update", loc.pageId, 0))
            /\ meta'[loc.pageId] =
                 ApplyUpdate(meta[loc.pageId], UpdateParams(loc.props, loc.fm))]_vars

\* a blank-body update of a database row done: its properties written, its four
\* blocks in place
C3_Witness ==
  /\ BlankUpdate /\ pc = "w_ok" /\ loc.pageId = "row1"
  /\ meta["row1"].icon = "I" /\ Len(meta["row1"].properties) > 1
  /\ content["row1"] = InitialContent("row1")

\* C4: a create request is sent only for a document that carries exactly one of
\* the parent and database fields.
C4_ExactlyOneHierarchyField ==
  (InDocument /\ "pages.create" \in Kinds(reqs)) =>
    (Truthy(loc.fm.database) # Truthy(loc.fm.parent))

\* C5: the local validation errors come before any remote request: an update
\* without id fails MISSING_ID, a create with neither field MISSING_PARENT, a
\* create with parent "workspace" INVALID_PARENT, each with no request sent.
C5_LocalValidationFirst ==
  InDocument =>
    /\ (loc.route = "update" /\ ~Truthy(loc.fm.id)) =>
         /\ reqs = <<>>
         /\ pc \in {"doUpdate", "w_catch"}
         /\ pc = "w_catch" => loc.err = McpError("MISSING_ID")
    /\ (loc.route = "create" /\ ~Truthy(loc.fm.database) /\ ~Truthy(loc.fm.parent)) =>
         /\ reqs = <<>>
         /\ pc \in {"doCreate", "w_catch"}
         /\ pc = "w_catch" => loc.err = McpError("MISSING_PARENT")
    /\ (loc.route = "create" /\ loc.fm.parent = Tok("name", "workspace")) =>
         /\ reqs = <<>>
         /\ pc \in {"doCreate", "w_catch"}
         /\ pc = "w_catch" => loc.err = McpError("INVALID_PARENT")

Batch == tool = "write" /\ args.n # 1

\* C6: a batch processes every document once, in input order, whatever failed
\* before, and reports one line per document, numbered 1..n in input order.
C6_BatchContinues ==
  Batch =>
    /\ \A k \in 1..Len(results) : results[k].n = k
    /\ ~ret.done => (Len(results) = di - 1 /\ di <= args.n + 1)
    /\ InDocument => di <= args.n
    /\ ret.done => (ret.lines = results /\ Len(results) = args.n)

\* a batch of two whose first document failed and whose second succeeded
C6_Witness ==
  /\ Batch /\ ret.done /\ Len(ret.lines) = MaxDocs
  /\ ~ret.lines[1].ok /\ ret.lines[Len(ret.lines)].ok

Failed(lines) == {k \in 1..Len(lines) : ~lines[k].ok}

\* C7: the batch's result is flagged as an error iff at least one document
\* failed, and the success count is the number of documents minus the failed.
C7_BatchFlagAndCount ==
  (Batch /\ ret.done) =>
    /\ ret.isError <=> Failed(ret.lines) # {}
    /\ ret.succeeded = args.n - Cardinality(Failed(ret.lines))
    /\ ret.total = args.n

\* a batch whose last document alone failed: all but one succeeded, flag set
C7_Witness ==
  /\ Batch /\ ret.done /\ args.n >= 2
  /\ Failed(ret.lines) = {args.n}
  /\ ret.succeeded = args.n - 1 /\ ret.isError

\* ------------------------------------------------------- properties: read

RECURSIVE LevelBelow(_, _)
\* how many levels page p lies below the page root, in the tree of parents
LevelBelow(root, p) ==
  IF p = root THEN 0
  ELSE IF ParentOf(p).type = "page_id" THEN 1 + LevelBelow(root, ParentOf(p).id)
  ELSE MAX_DEPTH + 1

\* the child pages of a page, in the order of its blocks
ChildPagesOf(p) ==
  IF KindOf(p) # "page" THEN <<>>
  ELSE LET kids == SelectSeq(InitialContent(p), LAMBDA b : b.type = "child_page")
       IN  [k \in 1..Len(kids) |-> kids[k].id]

RECURSIVE PreOrder(_, _, _, _)
RECURSIVE PreOrderAll(_, _, _, _)
\* the pre-order traversal of the tree below p, for the levels less than d, without
\* the children whose fetch failed
PreOrder(p, level, d, skip) ==
  <<p>> \o (IF level + 1 < d THEN PreOrderAll(ChildPagesOf(p), level + 1, d, skip)
            ELSE <<>>)
PreOrderAll(ps, level, d, skip) ==
  IF ps = <<>> THEN <<>>
  ELSE (IF Head(ps) \in skip THEN <<>> ELSE PreOrder(Head(ps), level, d, skip))
       \o PreOrderAll(Tail(ps), level, d, skip)

IsPrefix(a, b) == Len(a) <= Len(b) /\ a = SubSeq(b, 1, Len(a))

ReadOk == tool = "read" /\ ret.done /\ ~ret.isError

C8_DepthBound ==
  tool = "read" =>
    /\ \A k \in 1..Len(loc.parts) :
         LevelBelow(extractId(args.page), loc.parts[k]) < args.depth
    /\ IsPrefix(loc.parts, PreOrder(extractId(args.page), 0, args.depth, loc.skipped))
    /\ ReadOk => loc.parts = PreOrder(extractId(args.page), 0, args.depth, loc.skipped)
    /\ args.depth = 1 =>
         /\ "blocks.children.list" \notin Kinds(reqs)
         /\ Len(loc.parts) <= 1
         /\ ReadOk => Len(loc.parts) = 1

\* C8: a read with depth d emits documents only for pages at a level less than d
\* below the requested page, in pre-order; with d = 1 it emits exactly one document
\* and lists no children; and every read terminates.
C8_ReadDepthBound == [] C8_DepthBound /\ (tool = "read" ~> ret.done)

\* a read of depth 2 of a page with grandchildren returned the page and its two
\* children and nothing below
C8_Witness ==
  /\ ReadOk /\ args.depth = 2
  /\ loc.parts = <<"pg1", "pg2", "pg3">>

\* ------------------------------------------------------- properties: update

PropertyRequests == {"search", "pages.retrieve", "databases.retrieve",
                     "dataSources.retrieve", "pages.update"}

Count(log, kind) == Cardinality({k \in 1..Len(log) : log[k].k = kind})

\* C9: the update operation never lists, deletes or appends blocks and never
\* creates, archives or moves a page; it issues at most one page update, which
\* carries properties only, and leaves every page's content as it was.
C9_UpdateLeavesContent ==
  tool = "update" =>
    /\ Kinds(reqs) \subseteq PropertyRequests
    /\ Count(reqs, "pages.update") <= 1
    /\ \A k \in 1..Len(reqs) : reqs[k].k = "pages.update" => reqs[k].id = loc.pageId
    /\ \A p \in Pages :
         /\ content[p] = InitialContent(p)
         /\ meta[p].icon = NoMeta.icon /\ meta[p].cover = NoMeta.cover
         /\ p # loc.pageId => meta[p] = NoMeta
    /\ inflight = {}
    /\ (ret.done /\ ~ret.isError) => Count(reqs, "pages.update") = 1

\* an update of a database row by id went through: its properties were written
\* and its four content blocks are still there
C9_Witness ==
  /\ tool = "update" /\ ret.done /\ ~ret.isError
  /\ loc.pageId = "row1" /\ meta["row1"].properties # NoMeta.properties
  /\ Len(content["row1"]) = 4

\* ------------------------------------------------------- properties: errors

Operations == {"read", "write", "search", "list", "update", "schema", "comment",
               "delete", "move"}

\* a call of one of the nine operations on a single document
SingleCall == tool \in Operations /\ (tool = "write" => args.n = 1)

\* C10 as stated: no exception escapes, and a single-document call that returns
\* without the error flag raised no error at any of its steps, thrown or not.
C10_EveryErrorFlagged ==
  /\ pc # "escaped" /\ ~ret.escaped
  /\ (SingleCall /\ ret.done /\ ~ret.isError) =>
       (raised.thrown = 0 /\ raised.skipped = 0 /\ raised.probed = 0)

\* C10: no exception escapes from any of the nine operations, and a
\* single-document call returns with the error flag set iff an error was thrown
\* to its handler; the failed fetch of a child during a child listing and the
\* not-found answer to the page-or-database probe are not thrown to it.
C10_ThrownErrorsFlagged ==
  /\ pc # "escaped" /\ ~ret.escaped
  /\ SingleCall =>
       /\ ret.done => (ret.isError <=> raised.thrown > 0)
       /\ (raised.thrown > 0 /\ ~ret.done) => pc = "w_catch"
       /\ (ret.done /\ ret.isError) => loc.err # NoError

\* a move whose destination probe was answered "not found", so taken for a
\* database, and whose move request then failed: the call returned the error
C10_Witness ==
  /\ tool = "move" /\ ret.done /\ ret.isError
  /\ raised.probed = 1 /\ raised.thrown = 1
  /\ reqs[Len(reqs)].k = "pages.move"

\* ------------------------------------------------------- functions called alone

\* the variables a function called on its own leaves alone
Rest ==
  <<envKey, client, content, meta, di, results, errors, loc, inflight, reqs,
    raised, failures>>

\* the module state in which a function is called on its own
AtRest ==
  /\ envKey = TRUE
  /\ client = "null"
  /\ content = [p \in Pages |-> InitialContent(p)]
  /\ meta = [p \in Pages \cup DataSources |-> NoMeta]
  /\ di = 0
  /\ results = <<>>
  /\ errors = 0
  /\ loc = NoLoc
  /\ inflight = {}
  /\ reqs = <<>>
  /\ raised = [thrown |-> 0, skipped |-> 0, probed |-> 0]
  /\ failures = 0

\* ------------------------------------------------------- resolveByName alone

\* the names resolveByName is called with: titles that exist once, twice, in
\* another letter case, as a prefix of a title, and not at all
ResolveNames == {"Home", "home", "Notes", "NOTES", "Tasks", "Task", "Deep", "zzz"}

\* everything the workspace holds that search can answer with
ResolveIndex == Pages \cup DataSources

\* search under the kind filter of resolveByName, at most RESOLVE_LIMIT results
ResolveFound(filter) ==
  LET all == CASE filter = "page" -> ResolveIndex \cap Pages
               [] filter = "database" -> ResolveIndex \cap DataSources
               [] OTHER -> ResolveIndex
  IN {rs \in SUBSET all : Cardinality(rs) <= RESOLVE_LIMIT}

ResolveInit ==
  /\ AtRest
  /\ tool = "resolveByName"
  /\ args \in [name : ResolveNames, filter : {"page", "database", ""}, found : {{}}]
  /\ pc = "search"
  /\ ret = NoRet

\* lines 369-373: the search, answered by the remote
ResolveSearch ==
  /\ tool = "resolveByName" /\ pc = "search"
  /\ \E rs \in ResolveFound(args.filter) : args' = [args EXCEPT !.found = rs]
  /\ pc' = "filter"
  /\ UNCHANGED <<tool, ret>>
  /\ UNCHANGED Rest

\* lines 375-413: the filter and the three outcomes
ResolveReturn ==
  /\ tool = "resolveByName" /\ pc = "filter"
  /\ ret' = ResolveByName(args.name, args.found)
  /\ pc' = "return"
  /\ UNCHANGED <<tool, args>>
  /\ UNCHANGED Rest

ResolveNext == ResolveSearch \/ ResolveReturn

SpecResolve == ResolveInit /\ [][ResolveNext]_vars

\* ------------------------------------------------------- identifiers as text

\* Text is a sequence of one-character strings, so that the patterns of
\* helpers.ts can be applied to it character by character.

UPPER ==
  <<"A", "B", "C", "D", "E", "F", "G", "H", "I", "J", "K", "L", "M", "N", "O", "P",
      "Q", "R", "S", "T", "U", "V", "W", "X", "Y", "Z">>
LOWER ==
  <<"a", "b", "c", "d", "e", "f", "g", "h", "i", "j", "k", "l", "m", "n", "o", "p",
      "q", "r", "s", "t", "u", "v", "w", "x", "y", "z">>

\* String.prototype.trim removes these from both ends
WHITESPACE == {" ", "\t", "\n"}

\* [a-f0-9] under the i flag
HEX_DIGITS ==
  {"0", "1", "2", "3", "4", "5", "6", "7", "8", "9",
   "a", "b", "c", "d", "e", "f", "A", "B", "C", "D", "E", "F"}

toLowerCase(s) ==
  [i \in DOMAIN s |->
     IF \E k \in DOMAIN UPPER : UPPER[k] = s[i]
     THEN LOWER[CHOOSE k \in DOMAIN UPPER : UPPER[k] = s[i]]
     ELSE s[i]]

toUpperCase(s) ==
  [i \in DOMAIN s |->
     IF \E k \in DOMAIN LOWER : LOWER[k] = s[i]
     THEN UPPER[CHOOSE k \in DOMAIN LOWER : LOWER[k] = s[i]]
     ELSE s[i]]

RECURSIVE trimStart(_)
trimStart(s) ==
  IF s # <<>> /\ Head(s) \in WHITESPACE THEN trimStart(Tail(s)) ELSE s

RECURSIVE trimEnd(_)
trimEnd(s) ==
  IF s # <<>> /\ s[Len(s)] \in WHITESPACE
  THEN trimEnd(SubSeq(s, 1, Len(s) - 1))
  ELSE s

trim(s) == trimEnd(trimStart(s))

\* String.prototype.slice(from, to) with 0 <= from <= to
slice(s, from, to) == SubSeq(s, from + 1, Min(to, Len(s)))

\* [a-f0-9]{n} over the whole of s
HexRun(s) == \A i \in DOMAIN s : s[i] \in HEX_DIGITS

\* UUID_PATTERN, lines 57-58: 8-4-4-4-12 hex digits, anchored at both ends
UUID_PATTERN(s) ==
  /\ Len(s) = 36
  /\ \A i \in 1..36 :
       IF i \in {9, 14, 19, 24} THEN s[i] = "-" ELSE s[i] \in HEX_DIGITS

\* RAW_ID_PATTERN, line 60: 32 hex digits, anchored at both ends
RAW_ID_PATTERN(s) == Len(s) = 32 /\ HexRun(s)

formatUuid_keepCase(raw) ==
  LET id == SelectSeq(raw, LAMBDA c : c # "-") IN
  slice(id, 0, 8) \o <<"-">> \o slice(id, 8, 12) \o <<"-">> \o slice(id, 12, 16)
    \o <<"-">> \o slice(id, 16, 20) \o <<"-">> \o slice(id, 20, 32)

\* formatUuid, lines 92-101: hyphens removed, lower case, cut 8-4-4-4-12
formatUuid(raw) ==
  LET id == toLowerCase(SelectSeq(raw, LAMBDA c : c # "-")) IN
  slice(id, 0, 8) \o <<"-">> \o slice(id, 8, 12) \o <<"-">> \o slice(id, 12, 16)
    \o <<"-">> \o slice(id, 16, 20) \o <<"-">> \o slice(id, 20, 32)

\* the two literals notion\.(?:so|site)\/ of NOTION_URL_PATTERN
NOTION_SO ==
  <<"n", "o", "t", "i", "o", "n", ".", "s", "o", "/">>
NOTION_SITE ==
  <<"n", "o", "t", "i", "o", "n", ".", "s", "i", "t", "e", "/">>

\* the text has lit at position i, letter case ignored (the i flag)
HasAt(s, i, lit) ==
  /\ i + Len(lit) - 1 <= Len(s)
  /\ toLowerCase(SubSeq(s, i, i + Len(lit) - 1)) = lit

\* the positions right after an occurrence of notion.so/ or notion.site/.  What
\* precedes the domain is free: the pattern is not anchored at its start and
\* both (?:https?:\/\/)? and (?:[^/]+\.)? are optional.
DomainEnds(s) ==
  {i + Len(lit) : <<i, lit>> \in
     {<<j, l>> \in (DOMAIN s) \X {NOTION_SO, NOTION_SITE} : HasAt(s, j, l)}}

\* ([a-f0-9]{32})(?:[?#].*)?$ at position q: 32 hex digits, then the end of the
\* text or a ? or # and anything but a line break up to the end
CaptureAt(s, q) ==
  /\ q + 31 <= Len(s)
  /\ HexRun(SubSeq(s, q, q + 31))
  /\ \/ q + 32 = Len(s) + 1
     \/ /\ s[q + 32] \in {"?", "#"}
        /\ \A j \in (q + 33)..Len(s) : s[j] # "\n"

\* (?:[^/]+\/)? taken at position r: the position after the first slash, which
\* must have at least one character before it; 0 when the group cannot be taken
AfterSegment(s, r) ==
  LET slashes == {j \in r..Len(s) : s[j] = "/"} IN
  IF slashes = {} THEN 0
  ELSE LET k == CHOOSE j \in slashes : \A j2 \in slashes : j <= j2 IN
       IF k > r THEN k + 1 ELSE 0

\* (?:[^?#]*-)?([a-f0-9]{32})... from position r: the group is greedy, so the
\* last hyphen that lets the rest match is taken, and the group is left out only
\* when no hyphen does; 0 when nothing matches
CaptureFrom(s, r) ==
  LET afterHyphen ==
        {h + 1 : h \in {j \in r..Len(s) :
                         /\ s[j] = "-"
                         /\ \A j2 \in r..j : s[j2] \notin {"?", "#"}}}
      starts == {q \in afterHyphen \cup {r} : CaptureAt(s, q)}
  IN IF starts = {} THEN 0
     ELSE CHOOSE q \in starts : \A q2 \in starts : q >= q2

\* the path after the domain: with the optional segment first, without it next
MatchFrom(s, r) ==
  LET e == AfterSegment(s, r) IN
  IF e # 0 /\ CaptureFrom(s, e) # 0 THEN CaptureFrom(s, e) ELSE CaptureFrom(s, r)

\* NOTION_URL_PATTERN, lines 54-55: the captured 32 hex digits, <<>> when the
\* text does not match.  Of several occurrences of the domain the first that
\* matches is taken.
NOTION_URL_PATTERN(s) ==
  LET hits == {r \in DomainEnds(s) : MatchFrom(s, r) # 0} IN
  IF hits = {} THEN <<>>
  ELSE LET r == CHOOSE x \in hits : \A y \in hits : x <= y
           q == MatchFrom(s, r)
       IN SubSeq(s, q, q + 31)

\* extractId, lines 66-87, on text
extractIdText(input) ==
  LET trimmed == trim(input) IN
  IF UUID_PATTERN(trimmed) THEN toLowerCase(trimmed)
  ELSE IF RAW_ID_PATTERN(trimmed) THEN formatUuid(trimmed)
  ELSE LET match == NOTION_URL_PATTERN(trimmed) IN
       IF match # <<>> THEN formatUuid(match) ELSE trimmed

\* ------------------------------------------------------- extractId alone

\* two ids, each as its 32 hex digits and as its canonical form
ID_A_RAW ==
  <<"a", "b", "c", "d", "e", "f", "0", "1", "2", "3", "4", "5", "6", "7", "8", "9",
      "a", "b", "c", "d", "e", "f", "0", "1", "2", "3", "4", "5", "6", "7", "8", "9">>
ID_A ==
  <<"a", "b", "c", "d", "e", "f", "0", "1", "-", "2", "3", "4", "5", "-", "6", "7",
      "8", "9", "-", "a", "b", "c", "d", "-", "e", "f", "0", "1", "2", "3", "4", "5",
      "6", "7", "8", "9">>
ID_B_RAW ==
  <<"0", "f", "1", "e", "2", "d", "3", "c", "4", "b", "5", "a", "6", "9", "7", "8",
      "8", "7", "9", "6", "a", "5", "b", "4", "c", "3", "d", "2", "e", "1", "f", "0">>
ID_B ==
  <<"0", "f", "1", "e", "2", "d", "3", "c", "-", "4", "b", "5", "a", "-", "6", "9",
      "7", "8", "-", "8", "7", "9", "6", "-", "a", "5", "b", "4", "c", "3", "d", "2",
      "e", "1", "f", "0">>

SampleIds == {[raw |-> ID_A_RAW, uuid |-> ID_A], [raw |-> ID_B_RAW, uuid |-> ID_B]}

\* every second letter in upper case
mixedCase(s) == [i \in DOMAIN s |-> IF i % 2 = 0 THEN toUpperCase(<<s[i]>>)[1] ELSE s[i]]

LetterCases == {"lower", "UPPER", "mIxEd"}

InCase(s, c) ==
  CASE c = "UPPER" -> toUpperCase(s)
    [] c = "mIxEd" -> mixedCase(s)
    [] OTHER -> s

\* whitespace before and after
Paddings ==
  {<< <<>>, <<>> >>, << <<" ">>, <<>> >>, << <<>>, <<"\n">> >>,
   << <<"\t", " ">>, <<" ">> >>}

\* texts that are neither an id nor a service URL: names, hex runs of the wrong
\* length or with a wrong digit, a misplaced hyphen, another domain, a path
\* that ends in no id
PlainTexts ==
  {<<"M", "y", " ", "P", "a", "g", "e">>,
   <<"w", "o", "r", "k", "s", "p", "a", "c", "e">>,
   <<"Q", "3", "-", "p", "l", "a", "n">>,
   <<"a", "b", "c", "d", "e", "f", "0", "1", "2", "3", "4", "5", "6", "7", "8", "9",
       "a", "b", "c", "d", "e", "f", "0", "1", "2", "3", "4", "5", "6", "7", "8">>,
   <<"a", "b", "c", "d", "e", "f", "0", "1", "2", "3", "4", "5", "6", "7", "8", "9",
       "a", "b", "c", "d", "e", "f", "0", "1", "2", "3", "4", "5", "6", "7", "8", "9",
       "0">>,
   <<"a", "b", "c", "d", "e", "f", "0", "1", "2", "3", "4", "5", "6", "7", "8", "9",
       "a", "b", "c", "d", "e", "f", "0", "1", "2", "3", "4", "5", "6", "7", "8", "g">>,
   <<"a", "b", "c", "d", "e", "f", "0", "1", "2", "3", "4", "5", "-", "6", "7", "8",
       "9", "-", "a", "b", "c", "d", "-", "e", "f", "0", "1", "2", "3", "4", "5", "6",
       "7", "8", "9", "-">>,
   <<"h", "t", "t", "p", "s", ":", "/", "/", "e", "x", "a", "m", "p", "l", "e", ".",
       "c", "o", "m", "/", "a", "b", "c", "d", "e", "f", "0", "1", "2", "3", "4", "5",
       "6", "7", "8", "9", "a", "b", "c", "d", "e", "f", "0", "1", "2", "3", "4", "5",
       "6", "7", "8", "9">>,
   <<"h", "t", "t", "p", "s", ":", "/", "/", "w", "w", "w", ".", "n", "o", "t", "i",
       "o", "n", ".", "s", "o", "/", "M", "y", "-", "P", "a", "g", "e">>,
   <<>>}

UrlSchemes ==
  {<<>>,
   <<"h", "t", "t", "p", "s", ":", "/", "/">>,
   <<"h", "t", "t", "p", ":", "/", "/">>}
UrlHosts ==
  {NOTION_SO,
   <<"w", "w", "w", ".", "n", "o", "t", "i", "o", "n", ".", "s", "o", "/">>,
   <<"t", "e", "a", "m", ".", "n", "o", "t", "i", "o", "n", ".", "s", "i", "t", "e",
    "/">>}
UrlWorkspaces ==
  {<<>>,
   <<"a", "c", "m", "e", "/">>}
UrlSlugs ==
  {<<>>,
   <<"M", "y", "-", "P", "a", "g", "e", "-">>}
UrlTails ==
  {<<>>,
   <<"?", "v", "=", "1">>,
   <<"#", "t", "o", "p">>}

\* the calls of extractId: the text passed, what it was built from (form), and
\* the id or plain text at its core
IdInputs ==
  {[input |-> p[1] \o InCase(id[f], c) \o p[2], form |-> f, core |-> id.uuid] :
     <<id, f, c, p>> \in SampleIds \X {"raw", "uuid"} \X LetterCases \X Paddings}

PlainInputs ==
  {[input |-> p[1] \o t \o p[2], form |-> "plain", core |-> t] :
     <<t, p>> \in PlainTexts \X Paddings}

UrlInputs ==
  {[input |-> u[1] \o u[2] \o u[3] \o u[4] \o InCase(id[f], c) \o u[5],
    form |-> "url_" \o f, core |-> id.uuid] :
     <<id, f, c, u>> \in SampleIds \X {"raw", "uuid"} \X {"lower", "UPPER"}
                          \X (UrlSchemes \X UrlHosts \X UrlWorkspaces \X UrlSlugs
                                \X UrlTails)}

IdsInit ==
  /\ AtRest
  /\ tool = "extractId"
  /\ args \in IdInputs \cup PlainInputs \cup UrlInputs
  /\ pc = "call"
  /\ ret = [value |-> <<>>, again |-> <<>>]

\* extractId(input)
ExtractCall ==
  /\ tool = "extractId" /\ pc = "call"
  /\ ret' = [ret EXCEPT !.value = extractIdText(args.input)]
  /\ pc' = "return"
  /\ UNCHANGED <<tool, args>>
  /\ UNCHANGED Rest

\* extractId of what extractId returned
ExtractAgain ==
  /\ tool = "extractId" /\ pc = "return"
  /\ ret' = [ret EXCEPT !.again = extractIdText(ret.value)]
  /\ pc' = "again"
  /\ UNCHANGED <<tool, args>>
  /\ UNCHANGED Rest

IdsNext == ExtractCall \/ ExtractAgain

SpecIds == IdsInit /\ [][IdsNext]_vars

\* ------------------------------------------------------- frontmatterToProperties alone

\* the largest number of entries of a property map
MaxProps == 2

\* the sequences of at most n entries of a set, no name twice
RECURSIVE EntrySeqs(_, _)
EntrySeqs(entries, n) ==
  IF n = 0 THEN {<<>>}
  ELSE LET shorter == EntrySeqs(entries, n - 1) IN
       shorter \cup
       {Append(q, e) : <<q, e>> \in
          {<<q2, e2>> \in shorter \X entries :
             /\ Len(q2) = n - 1
             /\ \A i \in DOMAIN q2 : q2[i].name # e2.name}}

\* a schema with every read-only type, and one with a title only
WideSchema ==
  <<[name |-> "Name", type |-> "title"],
    [name |-> "Status", type |-> "status"],
    [name |-> "Tags", type |-> "multi_select"],
    [name |-> "Score", type |-> "number"],
    [name |-> "Total", type |-> "rollup"],
    [name |-> "Created", type |-> "created_time"],
    [name |-> "Edited", type |-> "last_edited_time"],
    [name |-> "Author", type |-> "created_by"],
    [name |-> "Editor", type |-> "last_edited_by"],
    [name |-> "Ticket", type |-> "unique_id"],
    [name |-> "Checked", type |-> "verification"],
    [name |-> "Press", type |-> "button"]>>
TitleOnlySchema == <<[name |-> "Title", type |-> "title"]>>

HeaderSchemas == {SchemaOf("ds1"), WideSchema, TitleOnlySchema}

\* header property names: in a schema with a writable type, with a read-only
\* type, in another letter case, in no schema
HeaderNames ==
  {"Status", "status", "Score", "Tags", "Total", "Created", "Ticket", "Press",
   "Checked", "Editor", "Bogus"}
HeaderValues == {Str("Done"), Num("5"), Null}
HeaderEntries == [name : HeaderNames, value : HeaderValues]

PropsInit ==
  /\ AtRest
  /\ tool = "frontmatterToProperties"
  /\ args \in [fm : {[NoDoc EXCEPT !.title = t, !.properties = q] :
                       <<t, q>> \in {None, "T"} \X EntrySeqs(HeaderEntries, MaxProps)},
               schema : HeaderSchemas]
  /\ pc = "call"
  /\ ret = [props |-> <<>>]

PropsCall ==
  /\ tool = "frontmatterToProperties" /\ pc = "call"
  /\ ret' = [props |-> frontmatterToProperties(args.fm, args.schema)]
  /\ pc' = "return"
  /\ UNCHANGED <<tool, args>>
  /\ UNCHANGED Rest

PropsNext == PropsCall

SpecProps == PropsInit /\ [][PropsNext]_vars

\* ------------------------------------------------------- pageToFrontmatter alone

\* a property of a page as the remote returns it: its type, the value under the
\* type's key, and for a formula or rollup the type of its result
PageProp(name, type, value, sub) ==
  [name |-> name, type |-> type, value |-> value, sub |-> sub]

\* extractFormulaValue, lines 143-158
extractFormulaValue(prop) ==
  CASE prop.sub \in {"string", "number", "boolean"} -> prop.value
    [] prop.sub = "date" -> IF prop.value = Null THEN Null ELSE Str(prop.value.s)
    [] OTHER -> Null

\* extractRollupValue, lines 160-173
extractRollupValue(prop) ==
  CASE prop.sub = "number" -> prop.value
    [] prop.sub = "date" -> IF prop.value = Null THEN Null ELSE Str(prop.value.s)
    [] prop.sub = "array" -> Arr(prop.value.items)
    [] OTHER -> Null

\* extractPropertyValue, lines 82-141: the header value of a page property,
\* Undefined when there is none to emit
extractPropertyValue(prop) ==
  CASE prop.type = "rich_text" ->
         IF prop.value.s = "" THEN Undefined ELSE Str(prop.value.s)
    [] prop.type \in {"number", "checkbox", "url", "email", "phone_number",
                      "created_time", "last_edited_time", "created_by",
                      "last_edited_by", "unique_id"} -> prop.value
    [] prop.type \in {"select", "status"} ->
         IF prop.value = Null THEN Undefined ELSE Str(prop.value.s)
    [] prop.type \in {"multi_select", "people", "relation", "files"} ->
         Arr(prop.value.items)
    [] prop.type = "date" ->
         IF prop.value = Null THEN Undefined
         ELSE IF prop.value.end \notin {None, NullText, ""}
         THEN DateObj(prop.value.s, prop.value.end)
         ELSE Str(prop.value.s)
    [] prop.type = "formula" -> extractFormulaValue(prop)
    [] prop.type = "rollup" -> extractRollupValue(prop)
    [] OTHER -> Undefined

\* pageToFrontmatter, lines 59-74: the title out of the title property, every
\* other property whose extracted value is not undefined
RECURSIVE ExtractedProps(_)
ExtractedProps(props) ==
  IF props = <<>> THEN <<>>
  ELSE LET prop == Head(props)
           value == extractPropertyValue(prop)
           rest == ExtractedProps(Tail(props))
       IN IF prop.type = "title" \/ value = Undefined THEN rest
          ELSE <<[name |-> prop.name, value |-> value]>> \o rest

ExtractedTitle(props) ==
  IF \E i \in DOMAIN props : props[i].type = "title"
  THEN props[CHOOSE i \in DOMAIN props :
               /\ props[i].type = "title"
               /\ \A j \in DOMAIN props : props[j].type = "title" => j <= i].value.s
  ELSE None

\* pageToFrontmatter, lines 24-77
pageToFrontmatter(page) ==
  [id |-> page.id, url |-> page.url, last_edited |-> page.last_edited_time,
   created |-> page.created_time, icon |-> page.icon, cover |-> page.cover,
   database |-> IF page.parent.type \in {"database_id", "data_source_id"}
                THEN page.parent.id ELSE None,
   parent |-> IF page.parent.type = "page_id" THEN page.parent.id
              ELSE IF page.parent.type = "workspace" THEN "workspace" ELSE None,
   title |-> ExtractedTitle(page.properties),
   properties |-> ExtractedProps(page.properties)]

\* the properties a page may have besides its title, each with the values the
\* remote can return for it: set, unset (null, an empty list) and falsy
PagePropEntries ==
  {PageProp("Score", "number", v, "") : v \in {Num("5"), Num("0"), Null}}
  \cup {PageProp("Done", "checkbox", v, "") : v \in {Bool(TRUE), Bool(FALSE)}}
  \cup {PageProp("Status", "select", v, "") : v \in {Str("Done"), Null}}
  \cup {PageProp("Stage", "status", v, "") : v \in {Str("In Progress"), Null}}
  \cup {PageProp("Notes", "rich_text", v, "") : v \in {Str("Some text"), Str("")}}
  \cup {PageProp("Website", "url", v, "") : v \in {Str("https://example.com"), Null}}
  \cup {PageProp("Email", "email", v, "") : v \in {Str("a@example.com"), Null}}
  \cup {PageProp("Phone", "phone_number", v, "") : v \in {Null}}
  \cup {PageProp("Due", "date", v, "") :
          v \in {DateObj("2026-03-01", NullText), DateObj("2026-03-01", "2026-03-05"),
                 Null}}
  \cup {PageProp("Tags", "multi_select", v, "") :
          v \in {Arr(<<Str("backend"), Str("urgent")>>), Arr(<<>>)}}
  \cup {PageProp("Links", "relation", v, "") : v \in {Arr(<<Str("row2")>>), Arr(<<>>)}}
  \cup {PageProp("Files", "files", v, "") : v \in {Arr(<<>>)}}
  \cup {PageProp("Owner", "people", v, "") : v \in {Arr(<<Str("Ann")>>)}}
  \cup {PageProp("Total", "formula", v, "number") : v \in {Num("5"), Null}}
  \cup {PageProp("Label", "formula", v, "string") : v \in {Null}}
  \cup {PageProp("Sum", "rollup", v, "number") : v \in {Null}}
  \cup {PageProp("Created", "created_time", v, "") : v \in {Str("2026-02-01T09:00:00Z")}}
  \cup {PageProp("Press", "button", v, "") : v \in {Null}}

PageParents ==
  {[type |-> "database_id", id |-> "db1"], [type |-> "data_source_id", id |-> "ds1"],
   [type |-> "page_id", id |-> "pg1"], [type |-> "workspace", id |-> ""]}

\* the pages the remote may return: a title, then properties in any order
SamplePages ==
  {[id |-> "row1", url |-> "https://www.notion.so/row1",
    last_edited_time |-> "2026-02-19T10:00:00Z",
    created_time |-> "2026-02-01T09:00:00Z",
    icon |-> None, cover |-> None, parent |-> par,
    properties |-> <<PageProp("Name", "title", Str("T"), "")>> \o q] :
     <<par, q>> \in PageParents \X EntrySeqs(PagePropEntries, MaxProps)}

PageInit ==
  /\ AtRest
  /\ tool = "pageToFrontmatter"
  /\ args \in [page : SamplePages]
  /\ pc = "call"
  /\ ret = [fm |-> NoDoc]

PageCall ==
  /\ tool = "pageToFrontmatter" /\ pc = "call"
  /\ ret' = [fm |-> pageToFrontmatter(args.page)]
  /\ pc' = "return"
  /\ UNCHANGED <<tool, args>>
  /\ UNCHANGED Rest

PageNext == PageCall

SpecPage == PageInit /\ [][PageNext]_vars

\* ------------------------------------------------------- documents as text (gray-matter)

\* what a plain YAML scalar is resolved to when it is loaded
ImplicitType(text) ==
  CASE text \in {"null", "~", ""} -> "null"
    [] text \in {"true", "false"} -> "boolean"
    [] text \in NumericTexts -> "number"
    [] text \in {"2026-03-01", "2026-03-05", "2026-02-01T09:00:00Z",
                 "2026-02-19T10:00:00Z"} -> "timestamp"
    [] OTHER -> "string"

\* a node of the header: a scalar in plain or quoted style, a list, a mapping
YNode(k, style, text, items) == [k |-> k, style |-> style, text |-> text, items |-> items]
NoNode == YNode("none", "", "", <<>>)

DumpScalar_plain(v) ==
  YNode("scalar", "plain", IF v.t = "null" THEN "null" ELSE v.s, <<>>)

\* matter.stringify on a scalar: a string that a plain scalar would not load as
\* is written quoted
DumpScalar(v) ==
  CASE v.t = "string" ->
         YNode("scalar", IF ImplicitType(v.s) # "string" THEN "quoted" ELSE "plain",
               v.s, <<>>)
    [] v.t = "null" -> YNode("scalar", "plain", "null", <<>>)
    [] OTHER -> YNode("scalar", "plain", v.s, <<>>)

\* matter.stringify on a property value
Dump(v) ==
  CASE v.t = "array" -> YNode("seq", "", "", [i \in DOMAIN v.items |-> DumpScalar(v.items[i])])
    [] v.t = "object" ->
         YNode("map", "", "",
               <<DumpScalar(Str(v.s)),
                 DumpScalar(IF v.end = NullText THEN Null ELSE Str(v.end))>>)
    [] OTHER -> DumpScalar(v)

\* matter() on a scalar: quoted is a string, plain is what it resolves to (a
\* timestamp becomes a Date object)
LoadScalar(node) ==
  IF node.style = "quoted" THEN Str(node.text)
  ELSE CASE ImplicitType(node.text) = "null" -> Null
         [] ImplicitType(node.text) = "boolean" -> Bool(node.text = "true")
         [] ImplicitType(node.text) = "number" -> Num(NumberOfText(node.text))
         [] ImplicitType(node.text) = "timestamp" -> Val("date", node.text, <<>>, "")
         [] OTHER -> Str(node.text)

\* the text of a loaded string, a mark for anything else
TextOf(v) ==
  IF v.t = "string" THEN v.s ELSE IF v.t = "null" THEN NullText ELSE "<" \o v.t \o ">"

\* matter() on a property value
Load(node) ==
  CASE node.k = "seq" -> Arr([i \in DOMAIN node.items |-> LoadScalar(node.items[i])])
    [] node.k = "map" ->
         DateObj(TextOf(LoadScalar(node.items[1])), TextOf(LoadScalar(node.items[2])))
    [] OTHER -> LoadScalar(node)

DumpField(x) == IF x = None THEN NoNode ELSE DumpScalar(Str(x))

\* buildMarkdown, lines 83-96: the fields that are not undefined, then the body
buildMarkdown(fm, body) ==
  [id |-> DumpField(fm.id), url |-> DumpField(fm.url), title |-> DumpField(fm.title),
   icon |-> DumpField(fm.icon), cover |-> DumpField(fm.cover),
   parent |-> DumpField(fm.parent), database |-> DumpField(fm.database),
   last_edited |-> DumpField(fm.last_edited), created |-> DumpField(fm.created),
   properties |-> [i \in DOMAIN fm.properties |->
                     [name |-> fm.properties[i].name,
                      node |-> Dump(fm.properties[i].value)]],
   body |-> body]

\* a document without a header
Headerless(body) ==
  [id |-> NoNode, url |-> NoNode, title |-> NoNode, icon |-> NoNode, cover |-> NoNode,
   parent |-> NoNode, database |-> NoNode, last_edited |-> NoNode, created |-> NoNode,
   properties |-> <<>>, body |-> body]

\* a header field as processSingleWrite sees it: undefined, or the loaded text
LoadField(node) ==
  IF node = NoNode THEN None ELSE TextOf(LoadScalar(node))

\* an id, database or parent field as the token the write path works on
LoadRef(node) ==
  LET x == LoadField(node) IN
  CASE x = None -> Absent
    [] x \in {"", NullText} -> Empty
    [] x \in Pages \cup Databases \cup DataSources -> Tok("uuid", x)
    [] OTHER -> Tok("name", x)

\* parseMarkdown, lines 14-31
parseMarkdown(doc) ==
  [id |-> LoadRef(doc.id), database |-> LoadRef(doc.database),
   parent |-> LoadRef(doc.parent), title |-> LoadField(doc.title),
   icon |-> LoadField(doc.icon), cover |-> LoadField(doc.cover),
   properties |-> [i \in DOMAIN doc.properties |->
                     [name |-> doc.properties[i].name,
                      value |-> Load(doc.properties[i].node)]],
   body |-> doc.body, bad |-> FALSE,
   url |-> LoadField(doc.url), last_edited |-> LoadField(doc.last_edited),
   created |-> LoadField(doc.created)]

\* markdown.split(BATCH_SEPARATOR): a body with a line "===" cuts the text in two
SplitDocuments(text) ==
  IF text.body = "separated"
  THEN <<[text EXCEPT !.body = "text"], Headerless("text")>>
  ELSE <<text>>

\* ------------------------------------------------------- read, then write what was read

RoundTripPages == {"pg1", "pg3", "row1", "row2"}

\* the properties of a row of ds1 besides its title, as the remote returns them
RowProps ==
  {<<PageProp("Status", "select", st, ""), PageProp("Score", "formula", sc, "number")>> :
     <<st, sc>> \in {Str("Done"), Str("true"), Null} \X {Num("5"), Null}}

\* the page object the remote returns
PageObject(pg) ==
  [id |-> pg, url |-> "https://www.notion.so/" \o pg,
   last_edited_time |-> "2026-02-19T10:00:00Z",
   created_time |-> "2026-02-01T09:00:00Z",
   icon |-> meta[pg].icon, cover |-> meta[pg].cover,
   parent |-> [type |-> ParentOf(pg).type,
               id |-> IF ParentOf(pg).id = None THEN "" ELSE ParentOf(pg).id],
   properties |->
     <<PageProp(IF ParentOf(pg).type \in {"database_id", "data_source_id"}
                THEN "Name" ELSE "title", "title", Str(TitleOf(pg)), "")>>
     \o meta[pg].properties]

\* the Markdown notion-to-md makes of the page's content
ReadBodies(pg) ==
  IF content[pg] = <<>> THEN {"blank"} ELSE {"text", "separated"}

RoundTripInit ==
  /\ envKey = TRUE
  /\ client = "null"
  /\ content = [q \in Pages |-> InitialContent(q)]
  /\ \E pg \in RoundTripPages, icon \in {None, "I"} :
       /\ \E props \in (IF ParentOf(pg).type \in {"database_id", "data_source_id"}
                        THEN RowProps ELSE {<<>>}) :
            meta = [q \in Pages \cup DataSources |->
                      IF q = pg THEN [NoMeta EXCEPT !.properties = props, !.icon = icon]
                      ELSE NoMeta]
       /\ args = [NoArgs EXCEPT !.page = Tok("uuid", pg), !.depth = 1]
  /\ tool = "read"
  /\ pc = "r_getPage"
  /\ di = 0
  /\ results = <<>>
  /\ errors = 0
  /\ loc = NoLoc
  /\ inflight = {}
  /\ reqs = <<>>
  /\ raised = [thrown |-> 0, skipped |-> 0, probed |-> 0]
  /\ failures = 0
  /\ ret = NoRet

\* read at depth 1: getPage, pageToMarkdown, the text returned
RtRead ==
  /\ tool = "read" /\ pc = "r_getPage"
  /\ LET fm == pageToFrontmatter(PageObject(args.page.key)) IN
     \E body \in ReadBodies(args.page.key) :
       ret' = [done |-> TRUE, isError |-> FALSE, fm |-> fm,
               text |-> buildMarkdown(fm, body)]
  /\ Request(NoError, TRUE, "pages.retrieve", args.page.key, 0)
  /\ pc' = "r_done"
  /\ UNCHANGED <<envKey, content, meta, tool, args, di, results, errors, loc, inflight,
                 raised>>

\* the text is passed to write as it is, mode auto
RtWriteStart ==
  /\ tool = "read" /\ pc = "r_done"
  /\ tool' = "write"
  /\ args' = [n |-> Len(SplitDocuments(ret.text)), mode |-> "auto", page |-> args.page,
              markdown |-> SplitDocuments(ret.text)]
  /\ di' = 1
  /\ reqs' = <<>>
  /\ pc' = "w_next"
  /\ UNCHANGED <<envKey, client, content, meta, results, errors, loc, inflight, raised,
                 failures, ret>>

\* processSingleWrite on the next document of the text
RtProcess ==
  /\ tool = "write" /\ pc = "w_next" /\ di <= args.n
  /\ ProcessSingleWrite(parseMarkdown(args.markdown[di]))

RoundTripNext ==
  \/ RtRead
  \/ RtWriteStart
  \/ RtProcess
  \/ DoUpdate
  \/ WGetPage
  \/ WDbRetrieve
  \/ WDsRetrieve
  \/ WUpdatePage
  \/ WListBlocks
  \/ WDeleteBatch
  \/ \E r \in inflight, ok \in BOOLEAN : DeleteComplete(r, ok)
  \/ WAppendBlocks
  \/ DoCreate
  \/ WriteOutcome
  \/ WriteSummary

SpecRoundTrip == RoundTripInit /\ [][RoundTripNext]_vars

\* ------------------------------------------------------- the property codec, there and back

\* the page property the remote returns for a typed value written to it: a date
\* without an end has end null, a number that is not one is stored as null
Stored(entry) ==
  PageProp(entry.name, entry.type,
           IF entry.type = "date" /\ entry.value.t = "object" /\ entry.value.end = None
           THEN DateObj(entry.value.s, NullText)
           ELSE IF entry.value = NaN THEN Null
           ELSE entry.value,
           "")

\* header values of every shape
CodecValues ==
  {Str("Done"), Str("In Progress"), Str("Some text"), Str("2026-03-01"),
   Str("https://example.com"), Str("5"), Str(""), Num("5"), Num("0"), Num("3.5"),
   Bool(TRUE), Bool(FALSE), Null,
   Arr(<<Str("backend"), Str("urgent")>>), Arr(<<Str("row2")>>), Arr(<<>>),
   Arr(<<Num("5")>>), DateObj("2026-03-01", "2026-03-05"), DateObj("2026-03-01", None)}

CodecInit ==
  /\ AtRest
  /\ tool = "codec"
  /\ args \in [type : WritableTypes, value : CodecValues]
  /\ pc = "call"
  /\ ret = [built |-> Undefined, stored |-> Undefined, read |-> Undefined]

\* buildPropertyValue(type, value)
CodecBuild ==
  /\ tool = "codec" /\ pc = "call"
  /\ ret' = [ret EXCEPT !.built = buildPropertyValue(args.type, args.value).value]
  /\ pc' = "built"
  /\ UNCHANGED <<tool, args>>
  /\ UNCHANGED Rest

\* the remote stores the typed value and returns it as a page property
CodecStore ==
  /\ tool = "codec" /\ pc = "built"
  /\ ret' = [ret EXCEPT
        !.stored = Stored([name |-> "P", type |-> args.type, value |-> ret.built]).value]
  /\ pc' = "stored"
  /\ UNCHANGED <<tool, args>>
  /\ UNCHANGED Rest

\* extractPropertyValue(prop)
CodecExtract ==
  /\ tool = "codec" /\ pc = "stored"
  /\ ret' = [ret EXCEPT
        !.read = extractPropertyValue(PageProp("P", args.type, ret.stored, ""))]
  /\ pc' = "return"
  /\ UNCHANGED <<tool, args>>
  /\ UNCHANGED Rest

CodecNext == CodecBuild \/ CodecStore \/ CodecExtract

SpecCodec == CodecInit /\ [][CodecNext]_vars

\* ------------------------------------------------------- the filter parser (tools/list.ts)

\* A filter expression is the sequence of its words; a property name and a
\* value are sequences of words too.

\* String.prototype.toLowerCase on a word
LowerText(w) ==
  CASE w = "Status" -> "status"
    [] w = "STATUS" -> "status"
    [] w = "Tags" -> "tags"
    [] w = "Score" -> "score"
    [] w = "Done" -> "done"
    [] w = "Due" -> "due"
    [] w = "Date" -> "date"
    [] w = "Notes" -> "notes"
    [] w = "Bogus" -> "bogus"
    [] w = "Stage" -> "stage"
    [] w = "Name" -> "name"
    [] w = "IS" -> "is"
    [] w = "NOT" -> "not"
    [] w = "In" -> "in"
    [] w = "Progress" -> "progress"
    [] w = "AND" -> "and"
    [] w = "And" -> "and"
    [] w = "CONTAINS" -> "contains"
    [] w = "ASC" -> "asc"
    [] w = "Asc" -> "asc"
    [] w = "DESC" -> "desc"
    [] w = "Ascending" -> "ascending"
    [] w = "Descending" -> "descending"
    [] OTHER -> w

LowerWords(ws) == [i \in DOMAIN ws |-> LowerText(ws[i])]

\* expr.split(/\s+AND\s+/i): a word "and" in any letter case with words on both
\* sides ends a part, unless the part before it would be empty
RECURSIVE SplitRest(_, _)
SplitRest(rest, cur) ==
  IF rest = <<>> THEN <<cur>>
  ELSE IF LowerText(Head(rest)) = "and" /\ cur # <<>> /\ Len(rest) > 1
  THEN <<cur>> \o SplitRest(Tail(rest), <<>>)
  ELSE SplitRest(Tail(rest), Append(cur, Head(rest)))

SplitAnd(expr) == SplitRest(expr, <<>>)

\* the data source queried and its schema, names as sequences of words
FilterSchema ==
  <<[name |-> <<"Name">>, type |-> "title"],
    [name |-> <<"Status">>, type |-> "select"],
    [name |-> <<"Stage">>, type |-> "status"],
    [name |-> <<"Tags">>, type |-> "multi_select"],
    [name |-> <<"Score">>, type |-> "number"],
    [name |-> <<"Done">>, type |-> "checkbox"],
    [name |-> <<"Due", "Date">>, type |-> "date"],
    [name |-> <<"Notes">>, type |-> "rich_text"]>>

\* a filter value: a text (its words), a number or a boolean
FilterText(ws) == [t |-> "string", w |-> ws]
FilterNumber(x) == [t |-> "number", w |-> <<x>>]
FilterBoolean(b) == [t |-> "boolean", w |-> <<IF b THEN "true" ELSE "false">>]

\* { property: prop, [type]: { [op]: value } }, and null
Leaf(prop, type, op, value) == [property |-> prop, type |-> type, op |-> op, value |-> value]
NullLeaf == Leaf(<<>>, "", "null", FilterText(<<>>))

\* parseFilterNumber, lines 391-395: the number, NullLeaf.value when NaN
IsNumberText(value) == Len(value) = 1 /\ value[1] \in NumericTexts
parseFilterNumber(value) == FilterNumber(NumberOfText(value[1]))

\* value.toLowerCase() === "true" || value.toLowerCase() === "yes"
CheckboxValue(value) == FilterBoolean(LowerWords(value) \in {<<"true">>, <<"yes">>})

\* buildEqualsFilter, lines 295-321
buildEqualsFilter(prop, value, type) ==
  CASE type = "multi_select" -> Leaf(prop, type, "contains", FilterText(value))
    [] type = "checkbox" -> Leaf(prop, type, "equals", CheckboxValue(value))
    [] type = "number" ->
         IF IsNumberText(value) THEN Leaf(prop, type, "equals", parseFilterNumber(value))
         ELSE NullLeaf
    [] OTHER -> Leaf(prop, type, "equals", FilterText(value))

\* buildNotEqualsFilter, lines 323-343
buildNotEqualsFilter(prop, value, type) ==
  CASE type = "multi_select" -> Leaf(prop, type, "does_not_contain", FilterText(value))
    [] type = "checkbox" -> Leaf(prop, type, "does_not_equal", CheckboxValue(value))
    [] type = "number" ->
         IF IsNumberText(value)
         THEN Leaf(prop, type, "does_not_equal", parseFilterNumber(value))
         ELSE NullLeaf
    [] OTHER -> Leaf(prop, type, "does_not_equal", FilterText(value))

\* buildContainsFilter, lines 345-361
buildContainsFilter(prop, value, type) == Leaf(prop, type, "contains", FilterText(value))

\* the build function of a pattern
BuildLeaf(build, prop, value, type) ==
  CASE build = "equals" -> buildEqualsFilter(prop, value, type)
    [] build = "does_not_equal" -> buildNotEqualsFilter(prop, value, type)
    [] build = "contains" -> buildContainsFilter(prop, value, type)
    [] build \in {"after", "before"} -> Leaf(prop, "date", build, FilterText(value))
    [] OTHER ->
         IF IsNumberText(value) THEN Leaf(prop, type, build, parseFilterNumber(value))
         ELSE NullLeaf

\* the patterns of parseSingleFilter in the order they are tried, lines 206-274:
\* the operator's spellings, each a sequence of words, and what is built
PATTERNS ==
  <<[ops |-> << <<"is">>, <<"=">>, <<"equals">> >>, build |-> "equals"],
    [ops |-> << <<"!=">>, <<"is", "not">>, <<"does", "not", "equal">> >>,
     build |-> "does_not_equal"],
    [ops |-> << <<"contains">> >>, build |-> "contains"],
    [ops |-> << <<">">>, <<"greater", "than">> >>, build |-> "greater_than"],
    [ops |-> << <<"<">>, <<"less", "than">> >>, build |-> "less_than"],
    [ops |-> << <<">=">> >>, build |-> "greater_than_or_equal_to"],
    [ops |-> << <<"<=">> >>, build |-> "less_than_or_equal_to"],
    [ops |-> << <<"after">> >>, build |-> "after"],
    [ops |-> << <<"before">> >>, build |-> "before"]>>

\* the operator op stands at word i, letter case ignored, with a word after it
OpAt(words, i, op) ==
  /\ i + Len(op) <= Len(words)
  /\ \A k \in DOMAIN op : LowerText(words[i + k - 1]) = op[k]

\* expr.match(/^(.+?)\s+(?:op|...)\s+(.+)$/i): the name is as short as can be,
\* so the first word at which a spelling of the operator stands is taken
MatchPattern(words, pat) ==
  LET hits == {h \in (2..Len(words)) \X DOMAIN pat.ops : OpAt(words, h[1], pat.ops[h[2]])}
  IN IF hits = {} THEN [found |-> FALSE, prop |-> <<>>, value |-> <<>>]
     ELSE LET h == CHOOSE x \in hits :
                     \A y \in hits : x[1] < y[1] \/ (x[1] = y[1] /\ x[2] <= y[2])
          IN [found |-> TRUE, prop |-> SubSeq(words, 1, h[1] - 1),
              value |-> SubSeq(words, h[1] + Len(pat.ops[h[2]]), Len(words))]

\* schema.find((s) => s.name.toLowerCase() === propName.toLowerCase())
FilterSchemaFind(schema, prop) ==
  IF \E i \in DOMAIN schema : LowerWords(schema[i].name) = LowerWords(prop)
  THEN CHOOSE i \in DOMAIN schema :
         /\ LowerWords(schema[i].name) = LowerWords(prop)
         /\ \A j \in 1..(i - 1) : LowerWords(schema[j].name) # LowerWords(prop)
  ELSE 0

\* the loop of parseSingleFilter, lines 276-292, from pattern k on: a pattern
\* that does not match, or whose name is not in the schema, is passed over; the
\* first other one decides
RECURSIVE ParseFrom(_, _, _)
ParseFrom(words, schema, k) ==
  IF k > Len(PATTERNS) THEN NullLeaf
  ELSE LET m == MatchPattern(words, PATTERNS[k])
           i == IF m.found THEN FilterSchemaFind(schema, m.prop) ELSE 0
       IN IF i = 0 THEN ParseFrom(words, schema, k + 1)
          ELSE BuildLeaf(PATTERNS[k].build, schema[i].name, m.value, schema[i].type)

parseSingleFilter(words, schema) == ParseFrom(words, schema, 1)

\* buildFilter, lines 186-199
buildFilter(expr, schema) ==
  LET parts == SplitAnd(expr)
      parsed == [i \in DOMAIN parts |-> parseSingleFilter(parts[i], schema)]
      filters == SelectSeq(parsed, LAMBDA f : f # NullLeaf)
  IN [kind |-> IF filters = <<>> THEN "undefined"
               ELSE IF Len(filters) = 1 THEN "leaf" ELSE "and",
      leaves |-> filters]

\* ------------------------------------------------------- buildFilter alone

\* the largest number of conjuncts of an expression
MaxConjuncts == 2

\* how a conjunct names its property: the words written, and the schema's name
\* and type for them (none for a property the schema does not have)
NameForms ==
  {[text |-> <<"Status">>, name |-> <<"Status">>, type |-> "select"],
   [text |-> <<"status">>, name |-> <<"Status">>, type |-> "select"],
   [text |-> <<"STATUS">>, name |-> <<"Status">>, type |-> "select"],
   [text |-> <<"Stage">>, name |-> <<"Stage">>, type |-> "status"],
   [text |-> <<"Tags">>, name |-> <<"Tags">>, type |-> "multi_select"],
   [text |-> <<"Score">>, name |-> <<"Score">>, type |-> "number"],
   [text |-> <<"score">>, name |-> <<"Score">>, type |-> "number"],
   [text |-> <<"Done">>, name |-> <<"Done">>, type |-> "checkbox"],
   [text |-> <<"Due", "Date">>, name |-> <<"Due", "Date">>, type |-> "date"],
   [text |-> <<"due", "date">>, name |-> <<"Due", "Date">>, type |-> "date"],
   [text |-> <<"Notes">>, name |-> <<"Notes">>, type |-> "rich_text"],
   [text |-> <<"Bogus">>, name |-> <<>>, type |-> ""]}

\* how a conjunct writes its operator, and the relation meant
OpForms ==
  {[text |-> <<"is">>, rel |-> "eq"],
   [text |-> <<"=">>, rel |-> "eq"],
   [text |-> <<"equals">>, rel |-> "eq"],
   [text |-> <<"IS">>, rel |-> "eq"],
   [text |-> <<"!=">>, rel |-> "neq"],
   [text |-> <<"is", "not">>, rel |-> "neq"],
   [text |-> <<"does", "not", "equal">>, rel |-> "neq"],
   [text |-> <<"IS", "NOT">>, rel |-> "neq"],
   [text |-> <<"contains">>, rel |-> "contains"],
   [text |-> <<"CONTAINS">>, rel |-> "contains"],
   [text |-> <<">">>, rel |-> "gt"],
   [text |-> <<"greater", "than">>, rel |-> "gt"],
   [text |-> <<"<">>, rel |-> "lt"],
   [text |-> <<"less", "than">>, rel |-> "lt"],
   [text |-> <<">=">>, rel |-> "ge"],
   [text |-> <<"<=">>, rel |-> "le"],
   [text |-> <<"after">>, rel |-> "after"],
   [text |-> <<"before">>, rel |-> "before"]}

\* the value of a conjunct, and whether it is a numeric literal
ValueForms ==
  {[text |-> <<"Done">>, numeric |-> FALSE],
   [text |-> <<"In", "Progress">>, numeric |-> FALSE],
   [text |-> <<"5">>, numeric |-> TRUE],
   [text |-> <<"abc">>, numeric |-> FALSE],
   [text |-> <<"true">>, numeric |-> FALSE],
   [text |-> <<"2026-03-01">>, numeric |-> FALSE]}

\* a conjunct: its words and what it was built from
Conjunct(n, o, v) ==
  [words |-> n.text \o o.text \o v.text, name |-> n.name, type |-> n.type,
   rel |-> o.rel, op |-> o.text, value |-> v.text, numeric |-> v.numeric]

Conjuncts == {Conjunct(f[1], f[2], f[3]) : f \in NameForms \X OpForms \X ValueForms}

\* the conjuncts written next to the one under study
Companions ==
  {Conjunct([text |-> <<"Status">>, name |-> <<"Status">>, type |-> "select"],
            [text |-> <<"=">>, rel |-> "eq"], [text |-> <<"Done">>, numeric |-> FALSE]),
   Conjunct([text |-> <<"Bogus">>, name |-> <<>>, type |-> ""],
            [text |-> <<"=">>, rel |-> "eq"], [text |-> <<"5">>, numeric |-> TRUE]),
   Conjunct([text |-> <<"Score">>, name |-> <<"Score">>, type |-> "number"],
            [text |-> <<">">>, rel |-> "gt"], [text |-> <<"abc">>, numeric |-> FALSE]),
   Conjunct([text |-> <<"tags">>, name |-> <<"Tags">>, type |-> "multi_select"],
            [text |-> <<"contains">>, rel |-> "contains"],
            [text |-> <<"In", "Progress">>, numeric |-> FALSE])}

\* the sequences of at most n companions
RECURSIVE CompanionSeqs(_)
CompanionSeqs(n) ==
  IF n = 0 THEN {<<>>}
  ELSE CompanionSeqs(n - 1) \cup
       {Append(q, c) : <<q, c>> \in
          {<<q2, c2>> \in CompanionSeqs(n - 1) \X Companions : Len(q2) = n - 1}}

\* one conjunct among companions, at any place
ConjunctSeqs ==
  {SubSeq(q, 1, k) \o <<c>> \o SubSeq(q, k + 1, Len(q)) :
     <<c, q, k>> \in {<<c2, q2, k2>> \in Conjuncts \X CompanionSeqs(MaxConjuncts - 1)
                                         \X (0..(MaxConjuncts - 1)) : k2 <= Len(q2)}}

\* the expression of a sequence of conjuncts, joined by the word and
RECURSIVE Joined(_, _)
Joined(cs, and) ==
  IF Len(cs) = 1 THEN cs[1].words
  ELSE cs[1].words \o <<and>> \o Joined(Tail(cs), and)

FilterInit ==
  /\ AtRest
  /\ tool = "buildFilter"
  /\ \E cs \in ConjunctSeqs, and \in {"AND", "and"} :
       args = [expr |-> Joined(cs, and), conjuncts |-> cs, schema |-> FilterSchema]
  /\ pc = "call"
  /\ ret = [kind |-> "", leaves |-> <<>>]

FilterCall ==
  /\ tool = "buildFilter" /\ pc = "call"
  /\ ret' = buildFilter(args.expr, args.schema)
  /\ pc' = "return"
  /\ UNCHANGED <<tool, args>>
  /\ UNCHANGED Rest

FilterNext == FilterCall

SpecFilter == FilterInit /\ [][FilterNext]_vars

\* ------------------------------------------------------- the sort parser (tools/list.ts)

\* A sort expression is the sequence of its words, a comma a word of its own.

\* expr.split(/,/): the parts between the commas, empty ones too
RECURSIVE SplitCommaRest(_, _)
SplitCommaRest(rest, cur) ==
  IF rest = <<>> THEN <<cur>>
  ELSE IF Head(rest) = "," THEN <<cur>> \o SplitCommaRest(Tail(rest), <<>>)
  ELSE SplitCommaRest(Tail(rest), Append(cur, Head(rest)))

SplitComma(expr) == SplitCommaRest(expr, <<>>)

\* part.match(/^(.+?)\s+(asc(?:ending)?|desc(?:ending)?)$/i): the last word is a
\* direction, letter case ignored, and the words before it are the name
SORT_WORDS == {"asc", "ascending", "desc", "descending"}

SortMatch(part) ==
  IF Len(part) >= 2 /\ LowerText(part[Len(part)]) \in SORT_WORDS
  THEN [found |-> TRUE, prop |-> SubSeq(part, 1, Len(part) - 1), dir |-> part[Len(part)]]
  ELSE [found |-> FALSE, prop |-> <<>>, dir |-> ""]

SortDirection_ascending(word) == "ascending"

\* match[2].toLowerCase().startsWith("asc") ? "ascending" : "descending"
SortDirection(word) ==
  IF LowerText(word) \in {"asc", "ascending"} THEN "ascending" ELSE "descending"

\* the loop of buildSort, lines 371-384
RECURSIVE SortsOf(_, _)
SortsOf(parts, schema) ==
  IF parts = <<>> THEN <<>>
  ELSE LET m == SortMatch(Head(parts))
           i == IF m.found THEN FilterSchemaFind(schema, m.prop) ELSE 0
           rest == SortsOf(Tail(parts), schema)
       IN IF i = 0 THEN rest
          ELSE <<[property |-> schema[i].name, direction |-> SortDirection(m.dir)]>> \o rest

\* buildSort, lines 364-387: the sorts, or undefined when there is none
buildSort(expr, schema) ==
  LET sorts == SortsOf(SplitComma(expr), schema)
  IN [defined |-> sorts # <<>>, sorts |-> sorts]

\* ------------------------------------------------------- buildSort alone

\* the largest number of parts of a sort expression
MaxParts == 2

\* how a part writes its direction, and the direction meant (none when the words
\* are no direction)
DirForms ==
  {[text |-> <<"asc">>, dir |-> "ascending"],
   [text |-> <<"ascending">>, dir |-> "ascending"],
   [text |-> <<"ASC">>, dir |-> "ascending"],
   [text |-> <<"Ascending">>, dir |-> "ascending"],
   [text |-> <<"desc">>, dir |-> "descending"],
   [text |-> <<"descending">>, dir |-> "descending"],
   [text |-> <<"DESC">>, dir |-> "descending"],
   [text |-> <<"Descending">>, dir |-> "descending"],
   [text |-> <<>>, dir |-> ""],
   [text |-> <<"up">>, dir |-> ""],
   [text |-> <<"asc", "first">>, dir |-> ""]}

\* a part: its words and what it was built from
SortPart(n, d) == [words |-> n.text \o d.text, name |-> n.name, dir |-> d.dir]

SortParts == {SortPart(f[1], f[2]) : f \in NameForms \X DirForms}

\* the parts written next to the one under study
SortCompanions ==
  {[words |-> <<"Score", "desc">>, name |-> <<"Score">>, dir |-> "descending"],
   [words |-> <<"Bogus", "asc">>, name |-> <<>>, dir |-> ""],
   [words |-> <<"Status">>, name |-> <<"Status">>, dir |-> ""],
   [words |-> <<>>, name |-> <<>>, dir |-> ""]}

\* the sequences of at most n companions
RECURSIVE SortCompanionSeqs(_)
SortCompanionSeqs(n) ==
  IF n = 0 THEN {<<>>}
  ELSE SortCompanionSeqs(n - 1) \cup
       {Append(q, c) : <<q, c>> \in
          {<<q2, c2>> \in SortCompanionSeqs(n - 1) \X SortCompanions : Len(q2) = n - 1}}

\* one part among companions, at any place
SortPartSeqs ==
  {SubSeq(q, 1, k) \o <<c>> \o SubSeq(q, k + 1, Len(q)) :
     <<c, q, k>> \in {<<c2, q2, k2>> \in SortParts \X SortCompanionSeqs(MaxParts - 1)
                                         \X (0..(MaxParts - 1)) : k2 <= Len(q2)}}

\* the expression of a sequence of parts, joined by commas
RECURSIVE JoinedByComma(_)
JoinedByComma(ps) ==
  IF Len(ps) = 1 THEN ps[1].words
  ELSE ps[1].words \o <<",">> \o JoinedByComma(Tail(ps))

SortInit ==
  /\ AtRest
  /\ tool = "buildSort"
  /\ \E ps \in SortPartSeqs :
       args = [expr |-> JoinedByComma(ps), parts |-> ps, schema |-> FilterSchema]
  /\ pc = "call"
  /\ ret = [defined |-> FALSE, sorts |-> <<>>]

SortCall ==
  /\ tool = "buildSort" /\ pc = "call"
  /\ ret' = buildSort(args.expr, args.schema)
  /\ pc' = "return"
  /\ UNCHANGED <<tool, args>>
  /\ UNCHANGED Rest

SortNext == SortCall

SpecSort == SortInit /\ [][SortNext]_vars

\* ------------------------------------------------------- appendBlocks alone

\* the page appended to; it has no block yet
APPEND_PAGE == "pg3"

\* doUpdate has reached appendBlocks(pageId, blocks) with n blocks
AppendInit ==
  /\ envKey = TRUE
  /\ client = "client"
  /\ content = [p \in Pages |-> InitialContent(p)]
  /\ meta = [p \in Pages \cup DataSources |-> NoMeta]
  /\ tool = "write"
  /\ args = [NoArgs EXCEPT !.n = 1, !.mode = "update"]
  /\ pc = "appendBlocks"
  /\ di = 1
  /\ results = <<>>
  /\ errors = 0
  /\ \E n \in 0..MaxBlocks :
       loc = [NoLoc EXCEPT !.pageId = APPEND_PAGE, !.route = "update",
                           !.blocks = [k \in 1..n |-> NewBlock(1, k)]]
  /\ inflight = {}
  /\ reqs = <<>>
  /\ raised = [thrown |-> 0, skipped |-> 0, probed |-> 0]
  /\ failures = 0
  /\ ret = NoRet

AppendNext == WAppendBlocks

SpecAppend == AppendInit /\ [][AppendNext]_vars

\* ------------------------------------------------------- queryDataSource alone

\* listDatabase has reached queryDataSource({dataSourceId, limit})
QueryInit ==
  /\ envKey = TRUE
  /\ client = "client"
  /\ content = [p \in Pages |-> InitialContent(p)]
  /\ meta = [p \in Pages \cup DataSources |-> NoMeta]
  /\ tool = "list"
  /\ \E limit \in 1..MaxLimit : args = [NoArgs EXCEPT !.limit = limit]
  /\ pc = "l_query"
  /\ di = 0
  /\ results = <<>>
  /\ errors = 0
  /\ \E ds \in QueryDataSources : loc = [NoLoc EXCEPT !.dsId = ds]
  /\ inflight = {}
  /\ reqs = <<>>
  /\ raised = [thrown |-> 0, skipped |-> 0, probed |-> 0]
  /\ failures = 0
  /\ ret = NoRet

QueryNext == LQuery

SpecQuery == QueryInit /\ [][QueryNext]_vars

\* ------------------------------------------------------- getClient alone

\* the largest number of getClient calls in one process
MaxCalls == 10

getClient_rebuild ==
  IF envKey
  THEN [err |-> NoError, handle |-> "client", constructed |-> TRUE]
  ELSE [err |-> McpError("AUTH_MISSING"), handle |-> client, constructed |-> FALSE]

\* getClient, lines 20-32: the stored handle; else a new one, stored, when the
\* credential is set; else AUTH_MISSING and nothing stored
getClient ==
  IF client # "null"
  THEN [err |-> NoError, handle |-> client, constructed |-> FALSE]
  ELSE IF envKey
  THEN [err |-> NoError, handle |-> "client", constructed |-> TRUE]
  ELSE [err |-> McpError("AUTH_MISSING"), handle |-> client, constructed |-> FALSE]

\* the process starts: no handle, the credential set or not; results is the log
\* of the calls of getClient
ClientInit ==
  /\ envKey \in BOOLEAN
  /\ client = "null"
  /\ content = [p \in Pages |-> InitialContent(p)]
  /\ meta = [p \in Pages \cup DataSources |-> NoMeta]
  /\ tool = "getClient"
  /\ args = NoArgs
  /\ pc = "idle"
  /\ di = 0
  /\ results = <<>>
  /\ errors = 0
  /\ loc = NoLoc
  /\ inflight = {}
  /\ reqs = <<>>
  /\ raised = [thrown |-> 0, skipped |-> 0, probed |-> 0]
  /\ failures = 0
  /\ ret = NoRet

\* an operation calls getClient
ClientCall ==
  /\ tool = "getClient" /\ Len(results) < MaxCalls
  /\ LET g == getClient IN
     /\ client' = g.handle
     /\ results' = Append(results, [key |-> envKey, was |-> client, err |-> g.err,
                                    handle |-> g.handle, constructed |-> g.constructed])
  /\ UNCHANGED <<envKey, content, meta, tool, args, pc, di, errors, loc, inflight,
                 reqs, raised, failures, ret>>

\* the credential is set in the process's environment, or removed from it
ClientEnv ==
  /\ tool = "getClient"
  /\ envKey' = ~envKey
  /\ UNCHANGED <<client, content, meta, tool, args, pc, di, results, errors, loc,
                 inflight, reqs, raised, failures, ret>>

ClientNext == ClientCall \/ ClientEnv

SpecClient == ClientInit /\ [][ClientNext]_vars

\* ------------------------------------------------------- write with long bodies

\* documents whose body translates to 100 blocks and to more: an update of a
\* page, of a database row, a new page under a page and a new row of a database
LongBodies == {"hundred", "long"}

LongDocuments ==
  {Doc(f[1][1], f[1][2], f[1][3], "T", NoProps, f[2]) :
     f \in {<<Tok("uuid", "pg3"), Absent, Absent>>,
            <<Tok("uuid", "row1"), Absent, Absent>>,
            <<Tok("uuid", "row2"), Absent, Absent>>,
            <<Absent, Absent, Tok("uuid", "pg1")>>,
            <<Absent, Tok("uuid", "db1"), Absent>>} \X LongBodies}

LongWriteStart == \E mode \in Modes : WriteStart(1, mode)

LongWriteProcess == \E d \in LongDocuments : ProcessSingleWrite(d)

LongWriteNext ==
  \/ LongWriteStart
  \/ LongWriteProcess
  \/ DoUpdate
  \/ WGetPage
  \/ WDbRetrieve
  \/ WDsRetrieve
  \/ WUpdatePage
  \/ WListBlocks
  \/ WDeleteBatch
  \/ \E r \in inflight, ok \in BOOLEAN : DeleteComplete(r, ok)
  \/ WAppendBlocks
  \/ DoCreate
  \/ WCreatePage
  \/ WriteOutcome

SpecLongWrite == Init /\ [][LongWriteNext]_vars

\* ------------------------------------------------------- properties: the probe

\* the probe of a list or move call has been answered
Probed ==
  /\ tool \in {"list", "move"}
  /\ \/ loc.probe # NoError
     \/ LooksLikeId(IF tool = "list" THEN args.page ELSE args.to) /\ loc.target # NoRef

\* the kind the call goes on with after its probe
ProbedKind ==
  IF loc.target.type \in {"page", "page_id"} THEN "page"
  ELSE IF loc.target.type \in {"database", "data_source_id"} THEN "database"
  ELSE "none"

\* C11: the probe yields "page" when the page fetch succeeds and "database"
\* exactly when it fails with status 404; every other failure (401, 403, 429,
\* network, partial response, missing credential) is thrown again unchanged and
\* the id is never taken for a database.
C11_ProbeKind ==
  Probed =>
    /\ loc.probe = NoError => (ProbedKind = "page" /\ raised.probed = 0)
    /\ loc.probe = ApiError(STATUS_NOT_FOUND) => ProbedKind = "database"
    /\ ProbedKind = "database" => loc.probe = ApiError(STATUS_NOT_FOUND)
    /\ loc.probe \notin {NoError, ApiError(STATUS_NOT_FOUND)} =>
         /\ ProbedKind = "none"
         /\ ret.done /\ ret.isError /\ loc.err = loc.probe
         /\ \/ loc.probe = McpError("AUTH_MISSING") /\ reqs = <<>>
            \/ reqs # <<>> /\ reqs[Len(reqs)].k = "pages.retrieve"

\* a list call whose probe was refused with status 403: the call returned that
\* error and asked the remote for nothing after the probe
C11_Witness ==
  /\ tool = "list" /\ ret.done /\ ret.isError
  /\ loc.probe = ApiError(STATUS_FORBIDDEN) /\ loc.err = ApiError(STATUS_FORBIDDEN)
  /\ Len(reqs) = 1

\* ------------------------------------------------------- properties: names

\* the results of the search whose title is the name, letter for letter
ExactMatches == {r \in args.found : TitleOf(r) = args.name}

\* C12: resolveByName keeps the results whose title equals the name exactly:
\* none fails with NOT_FOUND naming the string, one returns that result's id and
\* kind, several fail with AMBIGUOUS listing the id of every one of them; a
\* result with another title is never returned.
C12_ResolveOutcome ==
  (tool = "resolveByName" /\ pc = "return") =>
    /\ ExactMatches = {} =>
         ret.err = McpError("NOT_FOUND") /\ ret.named = args.name
    /\ Cardinality(ExactMatches) = 1 =>
         /\ ret.err = NoError
         /\ ExactMatches = {ret.id}
         /\ ret.object = (IF KindOf(ret.id) = "page" THEN "page" ELSE "database")
    /\ Cardinality(ExactMatches) > 1 =>
         ret.err = McpError("AMBIGUOUS") /\ ret.list = ExactMatches
    /\ ret.err = NoError => (ret.id \in args.found /\ TitleOf(ret.id) = args.name)

\* two pages titled "Notes" and one titled "Home" found for "Notes": ambiguous,
\* both ids listed, the third result left out
C12_Witness ==
  /\ tool = "resolveByName" /\ pc = "return"
  /\ args.name = "Notes" /\ args.found = {"pg1", "pg2", "pg3"}
  /\ ret.err = McpError("AMBIGUOUS") /\ ret.list = {"pg2", "pg3"}

\* ------------------------------------------------------- properties: identifiers

\* C13: extractId of the 32-digit form and of the hyphenated form of an id, in
\* any letter case and with whitespace around it, is the lower-case hyphenated
\* id; a text that is neither an id nor a service URL comes back trimmed and
\* otherwise unchanged; extractId of a result of extractId is that result.
C13_IdNormalization ==
  tool = "extractId" =>
    /\ (pc # "call" /\ args.form \in {"raw", "uuid", "plain"}) => ret.value = args.core
    /\ pc = "again" => ret.again = ret.value

\* the 32 digits of an id in mixed case between a tab and a blank: the canonical
\* id came back, and came back again from it
C13_Witness ==
  /\ tool = "extractId" /\ pc = "again"
  /\ args.form = "raw" /\ args.input = <<"\t", " ">> \o mixedCase(ID_A_RAW) \o <<" ">>
  /\ ret.value = ID_A /\ ret.again = ID_A

\* C14: a service URL (notion.so or notion.site, with or without a workspace
\* segment, a title slug, a query or fragment) that holds an id, as 32 hex
\* digits or as a hyphenated UUID, resolves to the canonical id of that id.
C14_UrlResolves ==
  (tool = "extractId" /\ pc # "call" /\ args.form \in {"url_raw", "url_uuid"}) =>
    ret.value = args.core

\* ------------------------------------------------------- properties: the codec

\* the header property has no entry of its name in the schema, or one of a
\* read-only type
DroppedKey(schema, name) ==
  \/ \A i \in DOMAIN schema : schema[i].name # name
  \/ \E i \in DOMAIN schema :
       /\ schema[i].name = name
       /\ schema[i].type \in {"formula", "rollup", "created_time", "last_edited_time",
                              "created_by", "last_edited_by", "unique_id",
                              "verification", "button"}

\* C15: frontmatterToProperties emits no entry for a header property whose name
\* the schema does not have, letter for letter, or has with a read-only type,
\* whatever the value; every entry it emits besides the title is a header
\* property the schema has with a writable type.
C15_DropRules ==
  (tool = "frontmatterToProperties" /\ pc = "return") =>
    /\ \A i \in DOMAIN args.fm.properties :
         DroppedKey(args.schema, args.fm.properties[i].name) =>
           \A j \in DOMAIN ret.props : ret.props[j].name # args.fm.properties[i].name
    /\ \A j \in DOMAIN ret.props :
         \/ ret.props[j].type = "title"
         \/ /\ ~DroppedKey(args.schema, ret.props[j].name)
            /\ \E i \in DOMAIN args.fm.properties :
                 args.fm.properties[i].name = ret.props[j].name

\* "status" (not in the schema, which has "Status") and "Total" (a rollup)
\* translated against the wide schema with a title: only the title comes out
C15_Witness ==
  /\ tool = "frontmatterToProperties" /\ pc = "return"
  /\ args.schema = WideSchema
  /\ args.fm.properties = <<[name |-> "status", value |-> Str("Done")],
                            [name |-> "Total", value |-> Num("5")]>>
  /\ args.fm.title = "T"
  /\ ret.props = <<TitleEntry("Name", "T")>>

\* a value with no content: null, undefined, the empty string, the empty list
EmptyValue(v) == v \in {Null, Undefined, Str(""), Arr(<<>>)}

\* C16: the property map pageToFrontmatter produces has no entry whose value is
\* null, undefined or empty; a property other than the title whose remote value
\* is null has no entry at all; false and 0 are kept.
C16_NoEmptyValues ==
  (tool = "pageToFrontmatter" /\ pc = "return") =>
    /\ \A j \in DOMAIN ret.fm.properties : ~EmptyValue(ret.fm.properties[j].value)
    /\ \A i \in DOMAIN args.page.properties :
         LET prop == args.page.properties[i] IN
         /\ (prop.type # "title" /\ prop.value = Null) =>
              \A j \in DOMAIN ret.fm.properties : ret.fm.properties[j].name # prop.name
         /\ prop.value \in {Bool(FALSE), Num("0")} =>
              \E j \in DOMAIN ret.fm.properties :
                ret.fm.properties[j] = [name |-> prop.name, value |-> prop.value]

\* the values of the natural shape of each writable type: a non-empty string, a
\* number, a boolean, a non-empty list of non-empty strings, a date as a string
\* or as {start, end}
Representative(type) ==
  {v \in CodecValues :
     CASE type \in {"rich_text", "select", "status", "url", "email", "phone_number"} ->
            v.t = "string" /\ v.s # ""
       [] type = "number" -> v.t = "number" /\ v # NaN
       [] type = "checkbox" -> v.t = "boolean"
       [] type \in {"multi_select", "relation", "files"} ->
            /\ v.t = "array" /\ v.items # <<>>
            /\ \A i \in DOMAIN v.items : v.items[i].t = "string" /\ v.items[i].s # ""
       [] type = "date" ->
            \/ v.t = "string" /\ v.s # ""
            \/ v.t = "object" /\ v.end \notin {None, NullText, ""}
       [] OTHER -> FALSE}

\* C17: for each of rich_text, number, select, status, multi_select, date,
\* checkbox, url, email, phone_number, relation and files, a value of the type's
\* natural shape written through buildPropertyValue and read back through
\* extractPropertyValue is the value that was written.
C17_CodecRoundTrip ==
  (tool = "codec" /\ pc = "return" /\ args.value \in Representative(args.type)) =>
    ret.read = args.value

\* "Done" against a select: {select: {name: "Done"}} is written, "Done" read back
C17_Witness ==
  /\ tool = "codec" /\ pc = "return"
  /\ args.type = "select" /\ args.value = Str("Done")
  /\ ret.built = Str("Done") /\ ret.stored = Str("Done") /\ ret.read = Str("Done")

\* ------------------------------------------------------- properties: the round trip

\* the hierarchy reference a document of the page must carry
HierarchyOf(pg) ==
  CASE ParentOf(pg).type \in {"database_id", "data_source_id"} ->
         [database |-> Tok("uuid", ParentOf(pg).id), parent |-> Absent]
    [] ParentOf(pg).type = "page_id" ->
         [database |-> Absent, parent |-> Tok("uuid", ParentOf(pg).id)]
    [] OTHER -> [database |-> Absent, parent |-> Tok("name", "workspace")]

\* the header of the page's document is the one write is working on
OnReadDocument == tool = "write" /\ di = 1 /\ pc # "w_next"

NumericComparison(c) ==
  c.rel \in {"gt", "lt", "ge", "le"} \/ (c.rel \in {"eq", "neq"} /\ c.type = "number")

\* the conjunct names a property of the schema and, where it compares numbers,
\* gives a numeric literal
Resolvable(c) == c.name # <<>> /\ (NumericComparison(c) => c.numeric)

\* C19: buildFilter yields the leaves of exactly the resolvable conjuncts, in
\* their order; a conjunct on a property the schema does not have, or comparing
\* numbers with a literal that is not one, is dropped and the others stay; no
\* leaf gives no filter, one gives that leaf, more give a conjunction; every leaf
\* names its property as the schema spells it.
C19_FilterConstruction ==
  (tool = "buildFilter" /\ pc = "return") =>
    LET kept == SelectSeq(args.conjuncts, Resolvable) IN
    /\ Len(ret.leaves) = Len(kept)
    /\ \A i \in DOMAIN ret.leaves :
         i <= Len(kept) => ret.leaves[i].property = kept[i].name
    /\ ret.kind = (IF Len(kept) = 0 THEN "undefined"
                   ELSE IF Len(kept) = 1 THEN "leaf" ELSE "and")

\* C20: "P != V", "P is not V" and "P does not equal V", P in the schema, give
\* an inequality leaf on P with value V (does_not_contain on a multi-select),
\* never an equality leaf.
C20_InequalityLeaves ==
  (/\ tool = "buildFilter" /\ pc = "return"
   /\ Len(args.conjuncts) = 1
   /\ args.conjuncts[1].rel = "neq"
   /\ Resolvable(args.conjuncts[1])) =>
    /\ ret.kind = "leaf"
    /\ ret.leaves[1].property = args.conjuncts[1].name
    /\ ret.leaves[1].op = (IF args.conjuncts[1].type = "multi_select"
                           THEN "does_not_contain" ELSE "does_not_equal")
    /\ ret.leaves[1].value.w =
         (IF args.conjuncts[1].type = "checkbox"
          THEN ret.leaves[1].value.w ELSE args.conjuncts[1].value)

\* ------------------------------------------------------- properties: sorts

\* the part names a property of the schema and ends in a direction
Sortable(p) == p.name # <<>> /\ p.dir # ""

\* C21: buildSort yields, in the order written, one pair per part of the form
\* "<name> <direction>" whose name is a property of the schema, letter case
\* ignored: the property as the schema spells it, ascending for asc and
\* ascending, descending for desc and descending; every other part is dropped,
\* and when no pair is left there is no sort.
C21_SortConstruction ==
  (tool = "buildSort" /\ pc = "return") =>
    LET kept == SelectSeq(args.parts, Sortable) IN
    /\ Len(ret.sorts) = Len(kept)
    /\ \A i \in DOMAIN ret.sorts :
         i <= Len(kept) =>
           ret.sorts[i] = [property |-> kept[i].name, direction |-> kept[i].dir]
    /\ ret.defined = (kept # <<>>)

C21_Witness ==
  /\ tool = "buildSort" /\ pc = "return"
  /\ Len(args.parts) = 2
  /\ ~Sortable(args.parts[1])
  /\ args.parts[2].words = <<"due", "date", "DESC">>
  /\ ret = [defined |-> TRUE,
            sorts |-> <<[property |-> <<"Due", "Date">>, direction |-> "descending"]>>]

\* ------------------------------------------------------- properties: children

\* the ids of the child pages and child databases among blocks, in block order
RECURSIVE ChildIds(_)
ChildIds(blocks) ==
  IF blocks = <<>> THEN <<>>
  ELSE (IF Head(blocks).type \in {"child_page", "child_database"}
        THEN <<Head(blocks).id>> ELSE <<>>) \o ChildIds(Tail(blocks))

\* C22: while a page's children are listed, a child whose fetch fails is left
\* out and the listing goes on; the listing returns the children that could be
\* fetched, in block order, and no more than limit of them.
C22_SkippedChildren ==
  /\ [](tool = "list" /\ pc = "done" /\ loc.result = "Children" =>
          LET reachable == SelectSeq(ChildIds(content[loc.pageId]),
                                     LAMBDA id : id \notin loc.skipped)
          IN /\ loc.list = SubSeq(reachable, 1, Min(args.limit, Len(reachable)))
             /\ Len(loc.list) <= args.limit
             /\ ~ret.isError)
  /\ [][tool = "list" /\ pc = "lc_blocks" =>
          /\ pc' \in {"lc_blocks", "lc_list", "l_children"}
          /\ ~ret'.isError]_vars

C22_Witness ==
  /\ tool = "list" /\ pc = "done" /\ loc.result = "Children"
  /\ loc.pageId = "pg1"
  /\ loc.skipped = {"pg2", "db1"}
  /\ loc.list = <<"pg3">>
  /\ ~ret.isError

\* ------------------------------------------------------- properties: requests in time

\* C23: the documents of a batch are written one after the other: when a request
\* of a document is issued, no request of another document of the batch is still
\* outstanding.
C23_BatchSequential ==
  [][tool = "write" /\ Len(reqs') > Len(reqs) => \A r \in inflight : r.d = di]_vars

\* deleteAllBlocks is running for the current document
Deleting == tool = "write" /\ pc \in {"deleteBatch", "deleteWait"}

\* the block-delete requests among the requests issued for the document
DeletesIssued == SelectSeq(reqs, LAMBDA r : r.k = "blocks.delete")

\* while deleteAllBlocks runs, no more than 3 block-delete requests are outstanding
FanOutBounded == [](Deleting => Cardinality(inflight) <= CONCURRENCY)

\* a group is issued when every request of the group before it has completed
GroupsInTurn ==
  [][Deleting /\ Len(reqs') > Len(reqs) => \A r \in inflight : r.d # di]_vars

\* when deleteAllBlocks ends without a failure, one request per listed block was issued
OneDeletePerBlock ==
  [][Deleting /\ pc' = "appendBlocks" =>
       /\ Len(DeletesIssued) = Len(loc.list)
       /\ \A b \in Range(loc.list) : b \notin Range(content[loc.pageId])]_vars

\* C24: during deleteAllBlocks at most 3 block-delete requests are outstanding at
\* any instant, a group of 3 is issued only after the group before it has
\* completed, and without a failure every listed block gets one delete request.
C24_DeleteFanOut == FanOutBounded /\ GroupsInTurn /\ OneDeletePerBlock

\* ------------------------------------------------------- properties: appending

\* the blocks carried by the first k requests
RECURSIVE Carried(_)
Carried(k) == IF k = 0 THEN 0 ELSE Carried(k - 1) + reqs[k].n

\* C25: appendBlocks with n blocks issues ceil(n / 100) append requests, one
\* after the other, each with 1 to 100 blocks, and the blocks of the requests in
\* the order issued are the input; with no block there is no request.
C25_AppendChunks ==
  (tool = "write" /\ pc \in {"appendBlocks", "w_ok", "w_catch"}) =>
    LET n == Len(loc.blocks) IN
    /\ \A k \in DOMAIN reqs :
         /\ reqs[k] = Req("blocks.children.append", loc.pageId,
                          IF n - 100 * (k - 1) < 100 THEN n - 100 * (k - 1) ELSE 100)
         /\ reqs[k].n >= 1 /\ reqs[k].n <= 100
    /\ Len(reqs) <= (n + 99) \div 100
    /\ pc = "w_ok" => /\ Len(reqs) = (n + 99) \div 100
                      /\ Carried(Len(reqs)) = n
                      /\ content[loc.pageId] = loc.blocks
    /\ pc = "appendBlocks" =>
         content[loc.pageId] = SubSeq(loc.blocks, 1, Carried(Len(reqs)))

C25_Witness ==
  /\ tool = "write" /\ pc = "w_ok"
  /\ Len(loc.blocks) = 201
  /\ Len(reqs) = 3
  /\ reqs[3].n = 1
  /\ content[loc.pageId] = loc.blocks

\* ------------------------------------------------------- properties: querying

\* C26: queryDataSource returns the first rows of the remote, at most limit of
\* them; its k-th request asks for min(100, limit - collected) rows after the
\* rows already collected; and it issues no request once limit rows are
\* collected or the remote has no more, so it ends.
C26_QueryPagination ==
  (tool = "list" /\ pc \in {"l_query", "done"} /\ loc.dsId \in QueryDataSources) =>
    LET rows == RowsOf(loc.dsId)
        want == IF args.limit < Len(rows) THEN args.limit ELSE Len(rows)
    IN /\ \A k \in DOMAIN reqs :
            /\ reqs[k].k = "dataSources.query"
            /\ reqs[k].n = (IF args.limit - 100 * (k - 1) < 100
                            THEN args.limit - 100 * (k - 1) ELSE 100)
            /\ reqs[k].n >= 1
       /\ Len(reqs) <= 1 \/ 100 * Len(reqs) < want + 100
       /\ (pc = "l_query" /\ reqs # <<>>) =>
             /\ loc.list = SubSeq(rows, 1, 100 * Len(reqs))
             /\ Len(loc.list) < args.limit
             /\ Len(loc.list) < Len(rows)
       /\ (pc = "done" /\ ~ret.isError) =>
             /\ loc.list = SubSeq(rows, 1, want)
             /\ Len(loc.list) <= args.limit
             /\ 100 * Len(reqs) >= want

C26_Witness ==
  /\ tool = "list" /\ pc = "done" /\ ~ret.isError
  /\ loc.dsId = "dsMax"
  /\ args.limit = 150
  /\ Len(reqs) = 2 /\ reqs[1].n = 100 /\ reqs[2].n = 50
  /\ Len(loc.list) = 150

\* ------------------------------------------------------- properties: the handle

\* the calls of getClient that constructed a client
Constructions == {k \in DOMAIN results : results[k].constructed}

\* C27: over the calls of getClient in a process the client is constructed at
\* most once; every call after the construction returns that handle, which is
\* never replaced or reset; without the credential and without a handle the call
\* fails AUTH_MISSING and stores nothing, and a call made with the credential
\* succeeds whatever failed before.
C27_ClientSingleton ==
  tool = "getClient" =>
    /\ Cardinality(Constructions) <= 1
    /\ \A k \in DOMAIN results :
         LET built == \E j \in 1..(k - 1) : results[j].constructed IN
         /\ built => /\ results[k].err = NoError
                     /\ results[k].handle = "client"
                     /\ results[k].was = "client"
                     /\ ~results[k].constructed
         /\ (~built /\ ~results[k].key) =>
               /\ results[k].err = McpError("AUTH_MISSING")
               /\ results[k].handle = "null"
               /\ ~results[k].constructed
         /\ (~built /\ results[k].key) =>
               /\ results[k].err = NoError
               /\ results[k].handle = "client"
               /\ results[k].constructed
    /\ client = (IF Constructions = {} THEN "null" ELSE "client")

C27_Witness ==
  /\ tool = "getClient"
  /\ Len(results) = 4
  /\ results[1].err = McpError("AUTH_MISSING")
  /\ results[2].constructed
  /\ ~results[3].key /\ results[3].err = NoError /\ results[3].handle = "client"
  /\ results[4].key /\ ~results[4].constructed

\* ------------------------------------------------------- properties: order of mutations

\* the places of the requests of kind k among the document's requests
PlacesOf(k) == {i \in DOMAIN reqs : reqs[i].k = k}

\* C28: an update by write issues the page update, then the block deletions,
\* then the appends; a block is deleted only after the page was fetched, its
\* properties resolved and the page update applied; a block is appended only
\* after every listed block was deleted, so a failed deletion leaves the
\* properties changed and nothing appended.
C28_MutationOrder ==
  (tool = "write" /\ loc.route = "update") =>
    LET updates == PlacesOf("pages.update")
        deletes == PlacesOf("blocks.delete")
        appends == PlacesOf("blocks.children.append")
    IN /\ \A u \in updates, d \in deletes : u < d
       /\ \A d \in deletes, a \in appends : d < a
       /\ \A u \in updates, a \in appends : u < a
       /\ deletes # {} =>
            /\ reqs[1].k = "pages.retrieve"
            /\ Cardinality(updates) = 1
            /\ meta[loc.pageId].updates = 1
            /\ loc.props = meta[loc.pageId].properties \/ loc.props = <<>>
       /\ appends # {} =>
            /\ \A b \in Range(loc.list) : b \notin Range(content[loc.pageId])
            /\ \A r \in inflight : r.d # di
            /\ Cardinality(deletes) = Len(loc.list)
       /\ (pc = "w_catch" /\ \E b \in Range(loc.list) : b \in Range(content[loc.pageId])) =>
            /\ appends = {}
            /\ meta[loc.pageId].updates = 1

C28_Witness ==
  /\ tool = "write" /\ loc.route = "update" /\ pc = "w_catch"
  /\ PlacesOf("blocks.delete") # {}
  /\ PlacesOf("blocks.children.append") = {}
  /\ meta[loc.pageId].updates = 1
  /\ \E b \in Range(loc.list) : b \in Range(content[loc.pageId])

\* ------------------------------------------------------- properties: blocks per request

\* C29: no request issued by write carries more than 100 content blocks, on the
\* update path and on the create path, however many blocks the body makes.
C29_BlocksPerRequest ==
  tool = "write" => \A k \in DOMAIN reqs : reqs[k].n <= 100

\* ------------------------------------------------------- properties: kinds of identifiers

\* the field gives a name, nothing, or the id of an object of one of the kinds
GivenKind(t, kinds) == LooksLikeId(t) => KindOf(extractId(t)) \in kinds

\* the document's database field is what read emits for the page of its id: the
\* id of the page's parent, a database or a data source
AsReadEmits(fm) ==
  /\ LooksLikeId(fm.id) /\ KindOf(extractId(fm.id)) = "page"
  /\ LooksLikeId(fm.database)
  /\ ParentOf(extractId(fm.id)).type \in {"database_id", "data_source_id"}
  /\ ParentOf(extractId(fm.id)).id = extractId(fm.database)

\* the caller gave no identifier of the wrong kind: a target is named, or given
\* by the id of an object the operation accepts; a document's database field
\* names a database, or is its id, or is what read emitted
InputKindsRight ==
  CASE tool = "write" ->
         GivenKind(loc.fm.database, {"database"}) \/ AsReadEmits(loc.fm)
    [] tool = "list" -> GivenKind(args.page, {"page", "database"})
    [] tool = "schema" -> GivenKind(args.page, {"database"})
    [] tool = "move" -> GivenKind(args.to, {"page", "database"})
    [] OTHER -> TRUE

\* C30: in write, list, update, schema and move, an identifier passed to the
\* fetch of a database or used as database_id parent names a database, and one
\* passed to the fetch or the query of a data source or used as data_source_id
\* parent names a data source, also when the target was resolved by name or
\* taken from the database field of a document that read produced.
C30_IdentifierKinds ==
  (tool \in {"write", "list", "update", "schema", "move"} /\ InputKindsRight) =>
    /\ \A k \in DOMAIN reqs :
         /\ reqs[k].k = "databases.retrieve" => KindOf(reqs[k].id) = "database"
         /\ reqs[k].k \in {"dataSources.retrieve", "dataSources.query",
                           "dataSources.update"} => KindOf(reqs[k].id) = "data_source"
    /\ (reqs # <<>> /\ reqs[Len(reqs)].k \in {"pages.create", "pages.move"}) =>
         /\ loc.target.type = "database_id" => KindOf(loc.target.id) = "database"
         /\ loc.target.type = "data_source_id" => KindOf(loc.target.id) = "data_source"

====
